---- MODULE Spec2Model ----
(***************************************************************************)
(* A model of the ICAP client: the connection (ICAPConn.Connect, Send,     *)
(* Close), the reply parser (readResponse) and the client call (Client.Do) *)
(* that drives them, together with the ICAP server and the network as the  *)
(* environment.  Byte strings are sequences of one-character strings.      *)
(***************************************************************************)
EXTENDS Integers, Sequences, FiniteSets, TLC

(***************************************************************************)
(* Bounds of the model.                                                    *)
(***************************************************************************)
\* how many replies the server sends on one connection
MaxReplies == 2
\* in how many pieces one Write call hands its payload to the socket
WriteParts == 2
\* of how many pieces (a byte or a line end) the bodies given to the serializer are
MaxBodyTokens == 5
\* the same for the bodies of the messages embedded in a request
MaxMsgTokens == 3
\* the same for the blocks given to setEncapsulatedHeaderValue
MaxBlockTokens == 4
\* the largest number of preview bytes asked for
MaxPreview == 3
\* the longest body of one repeated byte given to addHexBodyByteNotations
MaxHexLen == 40
\* how many header lines the ICAP header block of a reply given to readResponse has
MaxReplyHeaders == 2
\* how many seconds pass at most
MaxTime == 3
\* the largest timeout, in seconds, that Connect is called with
MaxTimeout == 2

(***************************************************************************)
(* Byte strings and the string helpers of the Go standard library that the *)
(* code uses.                                                              *)
(***************************************************************************)
crlf == <<"\r", "\n">>
doubleCRLF == crlf \o crlf
lf == <<"\n">>
icapVersion == <<"I", "C", "A", "P", "/", "1", ".", "0">>
httpVersion == <<"H", "T", "T", "P", "/", "1", ".", "1">>
schemeICAP == "icap"
schemeHTTPReq == "http_request"
schemeHTTPResp == "http_response"
previewHeader == <<"P", "r", "e", "v", "i", "e", "w">>
icap100ContinueMsg ==
    icapVersion \o <<" ", "1", "0", "0", " ", "C", "o", "n", "t", "i", "n", "u", "e">> \o doubleCRLF
icap204NoModsMsg ==
    icapVersion \o <<" ", "2", "0", "4", " ", "U", "n", "m", "o", "d", "i", "f", "i", "e", "d">>
\* "0\r\n\r\n", the literal of the read loop
chunkEnd == <<"0">> \o doubleCRLF
\* len(tmp) in the read loop
ReadBufSize == 1096
StatusContinue == 100

Min(a, b) == IF a < b THEN a ELSE b

Take(s, n) == SubSeq(s, 1, Min(n, Len(s)))

Drop(s, n) == SubSeq(s, n + 1, Len(s))

HasPrefix(s, p) == Len(p) <= Len(s) /\ SubSeq(s, 1, Len(p)) = p

HasSuffix(s, p) == Len(p) <= Len(s) /\ SubSeq(s, Len(s) - Len(p) + 1, Len(s)) = p

Contains(s, p) == \E i \in 0..(Len(s) - Len(p)) : SubSeq(s, i + 1, i + Len(p)) = p

WhiteSpace == {" ", "\t", "\n", "\r"}

RECURSIVE TrimLeft(_)
TrimLeft(s) == IF s # <<>> /\ Head(s) \in WhiteSpace THEN TrimLeft(Tail(s)) ELSE s

RECURSIVE TrimRight(_)
TrimRight(s) ==
    IF s # <<>> /\ s[Len(s)] \in WhiteSpace THEN TrimRight(SubSeq(s, 1, Len(s) - 1)) ELSE s

TrimSpace(s) == TrimRight(TrimLeft(s))

\* index of the first occurrence of the character c in s, 0 when there is none
RECURSIVE IndexFrom(_, _, _)
IndexFrom(s, c, i) ==
    IF i > Len(s) THEN 0 ELSE IF s[i] = c THEN i ELSE IndexFrom(s, c, i + 1)

Index(s, c) == IndexFrom(s, c, 1)

\* strings.Split(s, c): the pieces between the occurrences of c, empty pieces kept
RECURSIVE Split(_, _)
Split(s, c) ==
    LET i == Index(s, c)
    IN  IF i = 0 THEN <<s>> ELSE <<SubSeq(s, 1, i - 1)>> \o Split(Drop(s, i), c)

\* strings.Join(ss, " ")
RECURSIVE JoinSp(_)
JoinSp(ss) ==
    IF ss = <<>> THEN <<>>
    ELSE IF Len(ss) = 1 THEN ss[1] ELSE ss[1] \o <<" ">> \o JoinSp(Tail(ss))

\* the successive results of bufio.Reader.ReadString('\n'): every line with its
\* terminator, and the unterminated rest when it is not empty
RECURSIVE ReadLines(_)
ReadLines(s) ==
    LET i == Index(s, "\n")
    IN  IF s = <<>> THEN <<>>
        ELSE IF i = 0 THEN <<s>> ELSE <<SubSeq(s, 1, i)>> \o ReadLines(Drop(s, i))

Digits == <<"0", "1", "2", "3", "4", "5", "6", "7", "8", "9">>

DigitVal(c) == CHOOSE d \in 0..9 : Digits[d + 1] = c

IsDigit(c) == \E d \in 1..10 : Digits[d] = c

RECURSIVE DecVal(_, _)
DecVal(s, acc) == IF s = <<>> THEN acc ELSE DecVal(Tail(s), acc * 10 + DigitVal(Head(s)))

\* strconv.Atoi: an optional sign and at least one decimal digit
Atoi(s) ==
    LET signed == s # <<>> /\ Head(s) \in {"+", "-"}
        ds == IF signed THEN Tail(s) ELSE s
    IN  IF ds = <<>> \/ \E i \in 1..Len(ds) : ~IsDigit(ds[i])
        THEN [ok |-> FALSE, val |-> 0]
        ELSE [ok |-> TRUE,
              val |-> IF signed /\ Head(s) = "-" THEN 0 - DecVal(ds, 0) ELSE DecVal(ds, 0)]

(***************************************************************************)
(* The reply parser.                                                       *)
(***************************************************************************)
LowerLetters ==
    <<"a", "b", "c", "d", "e", "f", "g", "h", "i", "j", "k", "l", "m",
      "n", "o", "p", "q", "r", "s", "t", "u", "v", "w", "x", "y", "z">>

UpperLetters ==
    <<"A", "B", "C", "D", "E", "F", "G", "H", "I", "J", "K", "L", "M",
      "N", "O", "P", "Q", "R", "S", "T", "U", "V", "W", "X", "Y", "Z">>

IsLower(c) == \E i \in 1..26 : LowerLetters[i] = c

IsUpper(c) == \E i \in 1..26 : UpperLetters[i] = c

ToUpper(c) == IF IsLower(c) THEN UpperLetters[CHOOSE i \in 1..26 : LowerLetters[i] = c] ELSE c

ToLower(c) == IF IsUpper(c) THEN LowerLetters[CHOOSE i \in 1..26 : UpperLetters[i] = c] ELSE c

\* the token characters of a header name (the grave accent, which the lexer of
\* this language cannot hold in a string, is left out)
IsTokenChar(c) ==
    \/ IsLower(c) \/ IsUpper(c) \/ IsDigit(c)
    \/ c \in {"!", "#", "$", "%", "&", "'", "*", "+", "-", ".", "^", "_", "|", "~"}

\* textproto.CanonicalMIMEHeaderKey, which http.Header.Add applies to the name: a
\* name of token characters gets an upper-case letter first and after every "-"
\* and lower-case letters elsewhere; any other name is kept as it is
CanonicalMIMEHeaderKey(k) ==
    IF \E i \in 1..Len(k) : ~IsTokenChar(k[i]) THEN k
    ELSE [i \in 1..Len(k) |->
            IF i = 1 \/ k[i - 1] = "-" THEN ToUpper(k[i]) ELSE ToLower(k[i])]

\* getStatusWithCode prepares the status code and status text from two strings
getStatusWithCode(str1, str2) ==
    LET code == Atoi(str1)
    IN  IF ~code.ok THEN [ok |-> FALSE, code |-> 0, status |-> <<>>]
        ELSE [ok |-> TRUE, code |-> code.val, status |-> TrimSpace(str2)]

\* getHeaderVal: strings.SplitN(str, ":", 2), the value trimmed
getHeaderVal(str) ==
    LET i == Index(str, ":")
    IN  IF i = 0 THEN [header |-> str, val |-> <<>>]
        ELSE [header |-> SubSeq(str, 1, i - 1), val |-> TrimSpace(Drop(str, i))]

isRequestLine(str) == Contains(str, icapVersion) \/ Contains(str, httpVersion)

\* the Response under construction, with the locals scheme and httpMsg of the loop
NewParse ==
    [scheme |-> "", httpMsg |-> <<>>, err |-> "nil",
     StatusCode |-> 0, Status |-> <<>>, PreviewBytes |-> 0, Header |-> <<>>,
     ContentRequest |-> <<>>, ContentResponse |-> <<>>]

\* scheme == schemeICAP: blank lines are skipped, any other line is added as a header
ParseICAPLine(line, st) ==
    IF line = lf \/ line = crlf THEN st
    ELSE LET hv == getHeaderVal(line)
             pb == Atoi(hv.val)
         IN  [st EXCEPT
                !.PreviewBytes = IF hv.header = previewHeader
                                 THEN (IF pb.ok THEN pb.val ELSE 0) ELSE @,
                !.Header = Append(@, <<CanonicalMIMEHeaderKey(hv.header), hv.val>>)]

\* scheme == schemeHTTPReq / schemeHTTPResp: the line is accumulated, and the
\* message is handed to the HTTP parser at a blank line or at the end of the data
ParseHTTPLine(line, last, st) ==
    LET msg == st.httpMsg \o TrimSpace(line) \o crlf
        st1 == [st EXCEPT !.httpMsg = msg]
    IN  IF line = crlf \/ last
        THEN IF st.scheme = schemeHTTPReq
             THEN [st1 EXCEPT !.ContentRequest = msg]
             ELSE [st1 EXCEPT !.ContentResponse = msg]
        ELSE st1

\* one iteration of the loop of readResponse on the line currentMsg; last tells
\* that the reader's buffer is empty after it
ParseLine(currentMsg, last, st) ==
    LET ss == Split(currentMsg, " ")
        isReq == isRequestLine(currentMsg)
        status == getStatusWithCode(ss[2], JoinSp(SubSeq(ss, 3, Len(ss))))
        st1 == IF isReq /\ TrimSpace(ss[3]) = httpVersion
               THEN [st EXCEPT !.scheme = schemeHTTPReq, !.httpMsg = <<>>]
               ELSE IF isReq /\ ss[1] = httpVersion
               THEN [st EXCEPT !.scheme = schemeHTTPResp, !.httpMsg = <<>>]
               ELSE st
    IN  IF isReq /\ Len(ss) < 3 THEN [st EXCEPT !.err = "ErrInvalidTCPMsg"]
        ELSE IF isReq /\ ss[1] = icapVersion
        THEN IF status.ok
             THEN [st EXCEPT !.scheme = schemeICAP,
                             !.StatusCode = status.code, !.Status = status.status]
             ELSE [st EXCEPT !.err = "ErrSyntax"]
        ELSE IF st1.scheme = schemeICAP THEN ParseICAPLine(currentMsg, st1)
        ELSE IF st1.scheme \in {schemeHTTPReq, schemeHTTPResp}
        THEN ParseHTTPLine(currentMsg, last, st1)
        ELSE st1

RECURSIVE ParseLines(_, _, _)
ParseLines(lines, i, st) ==
    IF i > Len(lines) \/ st.err # "nil" THEN st
    ELSE ParseLines(lines, i + 1, ParseLine(lines[i], i = Len(lines), st))

\* readResponse reads the response from the icap server: the error, and the
\* Response (present when the error is "nil")
readResponse(b) ==
    LET st == ParseLines(ReadLines(b), 1, NewParse)
    IN  IF st.err # "nil" THEN [err |-> st.err]
        ELSE [err |-> "nil",
              StatusCode |-> st.StatusCode, Status |-> st.Status,
              PreviewBytes |-> st.PreviewBytes, Header |-> st.Header,
              ContentRequest |-> st.ContentRequest,
              ContentResponse |-> st.ContentResponse]

(***************************************************************************)
(* The state: one connection, the Send calls made on it, the Client.Do     *)
(* call, the request context, and the server with the network.             *)
(***************************************************************************)
VARIABLES
    tcp,          \* c.tcp: "nil" before Connect, then "open", "closed" after Close
    mu,           \* c.mu: 0 when free, else the Send call that holds it
    fdw,          \* the write lock of the socket: 0, or the Send whose Write runs
    wire,         \* what was written to the socket, each part tagged with its Send
    inbox,        \* the bytes the server sent that no Read has returned yet
    srvPending,   \* the segments of the reply in flight that are still to arrive
    srvCount,     \* how many replies the server has started to send
    srvEOF,       \* the server has closed its side of the connection
    mainPc,       \* per Send call: "idle", "call", "lock", "select", "returned"
    wrPc,         \* per Send call, its writer task
    rdPc,         \* per Send call, its reader task
    wrote,        \* per Send call, the parts its Write has written
    data,         \* per Send call, the buffer data of its reader task
    sendRes,      \* per Send call, what it returned
    flags,        \* per Send call, what happened to it (history)
    doPc,         \* where Client.Do is
    req,          \* the Request given to Client.Do
    doRet,        \* what the return statement of Client.Do evaluated
    errLocal,     \* the local variable err of Client.Do
    closeErr,     \* what Close returned to the deferred function
    ctxCancelled, \* req.ctx is cancelled: "no", "before" the dial, "during" a Send
    hist,         \* counts of the calls made by Client.Do (history)
    fnArgs,       \* the function of the serializer that is called, with its arguments
    fnRet,        \* whether that call has returned, and what
    now,          \* the time, in seconds
    deadlines,    \* the read and the write deadline of the socket, 0 for none
    connectCall,  \* when Connect was called and with which timeout (history)
    opts,         \* c.opts of the Client
    callPc,       \* per caller of Do on a shared Client, where its call is
    connTcp,      \* c.conn.tcp of the shared Client: 0 for nil, else a socket
    sockets,      \* per socket: "unopened", "open" or "closed"
    sockUse       \* per caller, the socket it wrote to, read from, closed (history)

vars ==
    <<tcp, mu, fdw, wire, inbox, srvPending, srvCount, srvEOF, mainPc, wrPc, rdPc,
      wrote, data, sendRes, flags, doPc, req, doRet, errLocal, closeErr,
      ctxCancelled, hist, fnArgs, fnRet, now, deadlines, connectCall, opts,
      callPc, connTcp, sockets, sockUse>>

connVars == <<tcp, mu, fdw, wire, inbox, mainPc, wrPc, rdPc, wrote, data, sendRes, flags>>

srvVars == <<srvPending, srvCount, srvEOF>>

doVars == <<doPc, req, doRet, errLocal, closeErr, hist>>

utilVars == <<fnArgs, fnRet>>

timeVars == <<now, deadlines, connectCall, opts>>

shareVars == <<callPc, connTcp, sockets, sockUse>>

\* the callers of Do on one Client; the socket that the Connect of caller i
\* opens is socket i
Callers == {1, 2}

NoUse == [write |-> 0, read |-> 0, close |-> 0]

\* no function of the serializer is called on its own
NoCall == [op |-> "none"]

\* the call has not returned
NotReturned == [done |-> FALSE]

\* the two Send calls: the first and the second call of Client.Do, or the calls
\* of two users of one connection
Sends == {1, 2}

\* errors are sets of causes: nil is the empty set, errors.Join is the union
Nil == {}

Join(e1, e2) == e1 \cup e2

NoResp == [err |-> "none"]

NoResult == [kind |-> "none", err |-> Nil, resp |-> NoResp, from |-> <<>>]

NoFlags == [wrFailed |-> FALSE, rdFailed |-> FALSE, failedAtReturn |-> FALSE]

(***************************************************************************)
(* The replies the server may send, each as the segments in which it       *)
(* reaches the client.                                                     *)
(***************************************************************************)
Prefix == <<"p">>

Suffix == <<"s">>

Reply100 == icap100ContinueMsg

Reply204 == Prefix \o icap204NoModsMsg \o Suffix

ReplyBad == icapVersion \o <<" ", "0">> \o doubleCRLF

\* "prefix" followed by a double CRLF
ReplyCRLF == Prefix \o doubleCRLF

\* a 204 reply with the status line of the ICAP servers, and its header block
Reply204NoMods ==
    icapVersion
    \o <<" ", "2", "0", "4", " ", "N", "o", " ", "M", "o", "d", "i", "f", "i", "c", "a", "t", "i", "o", "n", "s">>
    \o crlf \o <<"A", ":", " ", "b">> \o doubleCRLF

\* a 200 reply whose header block ends with a value 0, and the embedded HTTP
\* response after it, in two segments
ReplyZeroHeader ==
    << icapVersion \o <<" ", "2", "0", "0", " ", "O", "K">> \o crlf
           \o <<"A", ":", " ", "0">> \o doubleCRLF,
       httpVersion \o <<" ", "2", "0", "0", " ", "O", "K">> \o doubleCRLF >>

\* the 204 reply arrives whole, cut after the marker, or cut inside the marker
Replies ==
    { <<Reply100>>,
      <<Reply204>>,
      <<Prefix \o icap204NoModsMsg, Suffix>>,
      <<SubSeq(Reply204, 1, 13), Drop(Reply204, 13)>>,
      <<ReplyBad>>,
      <<ReplyCRLF>>,
      <<Reply204NoMods>> }

\* the replies the server may send as its n-th reply: the 200 reply in two
\* segments is sent as the first reply only
RepliesAt(n) == IF n = 1 THEN Replies \cup {ReplyZeroHeader} ELSE Replies

\* defaultTimeout = 15 * time.Second
defaultTimeout == 15

\* NewClient: a Timeout left zero becomes the default
NewClient(o) == [Timeout |-> IF o.Timeout = 0 THEN defaultTimeout ELSE o.Timeout]

NoDeadline == [rd |-> 0, wr |-> 0]

NoConnect == [called |-> FALSE, at |-> 0, timeout |-> 0]

\* mutant: only the write deadline is set
ConnectDeadlines_WriteOnly(t, timeout) ==
    IF timeout = 0 THEN NoDeadline ELSE [rd |-> 0, wr |-> t + timeout]

\* the deadlines that Connect, called at the time t, leaves on the socket: none
\* with the timeout 0, else time.Now().Add(timeout) for reads and for writes
ConnectDeadlines(t, timeout) ==
    IF timeout = 0 THEN NoDeadline ELSE [rd |-> t + timeout, wr |-> t + timeout]

RECURSIVE Flatten(_)
Flatten(ss) == IF ss = <<>> THEN <<>> ELSE Head(ss) \o Flatten(Tail(ss))

InitCommon ==
    /\ mu = 0
    /\ fdw = 0
    /\ wire = <<>>
    /\ inbox = <<>>
    /\ srvPending = <<>>
    /\ srvCount = 0
    /\ srvEOF = FALSE
    /\ wrPc = [s \in Sends |-> "idle"]
    /\ rdPc = [s \in Sends |-> "idle"]
    /\ wrote = [s \in Sends |-> 0]
    /\ data = [s \in Sends |-> <<>>]
    /\ sendRes = [s \in Sends |-> NoResult]
    /\ flags = [s \in Sends |-> NoFlags]
    /\ mainPc = [s \in Sends |-> "idle"]
    /\ doRet = [resp |-> NoResp, err |-> Nil]
    /\ errLocal = Nil
    /\ closeErr = Nil
    /\ ctxCancelled = "no"
    /\ hist = [connects |-> 0, sends |-> 0, closes |-> 0, path |-> "none"]
    /\ fnRet = NotReturned
    /\ now = 0
    /\ deadlines = NoDeadline
    /\ connectCall = NoConnect
    /\ callPc = [i \in Callers |-> "none"]
    /\ connTcp = 0
    /\ sockets = [i \in Callers |-> "unopened"]
    /\ sockUse = [i \in Callers |-> NoUse]

\* a Request as NewRequest and SetPreview leave it: SetPreview sets previewSet, and
\* bodyFittedInPreview only together with it
Requests ==
    {r \in [previewSet : BOOLEAN, bodyFittedInPreview : BOOLEAN] :
        r.bodyFittedInPreview => r.previewSet}

\* NewClient and NewRequest have run; Client.Do is about to start
Init ==
    /\ InitCommon
    /\ tcp = "nil"
    /\ doPc = "connect"
    /\ req \in Requests
    /\ fnArgs = NoCall
    /\ opts = NewClient([Timeout |-> 0])

(***************************************************************************)
(* The server and the network.                                             *)
(***************************************************************************)
\* the server starts to send a reply, whether or not it has received anything
ServerReply ==
    /\ tcp = "open"
    /\ ~srvEOF
    /\ srvPending = <<>>
    /\ srvCount < MaxReplies
    /\ \E r \in RepliesAt(srvCount + 1) : srvPending' = r
    /\ srvCount' = srvCount + 1
    /\ UNCHANGED <<connVars, doVars, srvEOF, ctxCancelled, utilVars, timeVars, shareVars>>

\* the next segment of the reply arrives at the client
ServerDeliver ==
    /\ tcp = "open"
    /\ srvPending # <<>>
    /\ inbox' = inbox \o Head(srvPending)
    /\ srvPending' = Tail(srvPending)
    /\ UNCHANGED <<tcp, mu, fdw, wire, mainPc, wrPc, rdPc, wrote, data, sendRes, flags,
                   doVars, srvCount, srvEOF, ctxCancelled, utilVars, timeVars, shareVars>>

\* the server closes the connection after what it sent
ServerClose ==
    /\ tcp = "open"
    /\ ~srvEOF
    /\ srvPending = <<>>
    /\ srvEOF' = TRUE
    /\ UNCHANGED <<connVars, doVars, srvPending, srvCount, ctxCancelled, utilVars, timeVars, shareVars>>

(***************************************************************************)
(* ICAPConn.Send: the caller, its writer task and its reader task.         *)
(***************************************************************************)
\* c.ok()
ok == tcp # "nil"

\* mutant: Send goes on to the lock without the test of c.ok()
SendCall_NoCheck(s) ==
    /\ mainPc[s] = "call"
    /\ mainPc' = [mainPc EXCEPT ![s] = "lock"]
    /\ UNCHANGED <<tcp, mu, fdw, wire, inbox, wrPc, rdPc, wrote, data, sendRes, flags,
                   srvVars, doVars, ctxCancelled, utilVars, timeVars, shareVars>>

\* Send is called: without socket (!c.ok()) it returns EINVAL at once, else the
\* caller goes on to c.mu.Lock()
SendCall(s) ==
    /\ mainPc[s] = "call"
    /\ IF ok
       THEN /\ mainPc' = [mainPc EXCEPT ![s] = "lock"]
            /\ UNCHANGED sendRes
       ELSE /\ mainPc' = [mainPc EXCEPT ![s] = "returned"]
            /\ sendRes' = [sendRes EXCEPT ![s] =
                              [NoResult EXCEPT !.kind = "err", !.err = {"EINVAL"}]]
    /\ UNCHANGED <<tcp, mu, fdw, wire, inbox, wrPc, rdPc, wrote, data, flags,
                   srvVars, doVars, ctxCancelled, utilVars, timeVars, shareVars>>

\* c.mu.Lock(), the two channels are made and the two tasks are started
SendLock(s) ==
    /\ mainPc[s] = "lock"
    /\ mu = 0
    /\ mu' = s
    /\ mainPc' = [mainPc EXCEPT ![s] = "select"]
    /\ wrPc' = [wrPc EXCEPT ![s] = "start"]
    /\ rdPc' = [rdPc EXCEPT ![s] = "read"]
    /\ UNCHANGED <<tcp, fdw, wire, inbox, wrote, data, sendRes, flags,
                   srvVars, doVars, ctxCancelled, utilVars, timeVars, shareVars>>

\* the writer task enters c.tcp.Write(in): a Write runs alone on the socket
WriteBegin(s) ==
    /\ wrPc[s] = "start"
    /\ tcp = "open"
    /\ fdw = 0
    /\ fdw' = s
    /\ wrPc' = [wrPc EXCEPT ![s] = "writing"]
    /\ UNCHANGED <<tcp, mu, wire, inbox, mainPc, rdPc, wrote, data, sendRes, flags,
                   srvVars, doVars, ctxCancelled, utilVars, timeVars, shareVars>>

\* Write hands the next part of the payload to the socket, and returns after the last
WritePart(s) ==
    /\ wrPc[s] = "writing"
    /\ tcp = "open"
    /\ wire' = Append(wire, s)
    /\ wrote' = [wrote EXCEPT ![s] = @ + 1]
    /\ IF wrote[s] + 1 = WriteParts
       THEN fdw' = 0 /\ wrPc' = [wrPc EXCEPT ![s] = "done"]
       ELSE UNCHANGED <<fdw, wrPc>>
    /\ UNCHANGED <<tcp, mu, inbox, mainPc, rdPc, data, sendRes, flags,
                   srvVars, doVars, ctxCancelled, utilVars, timeVars, shareVars>>

\* Write returns an error (the socket is closed, or the network failed): the
\* writer task goes to send it on errChan
WriteFail(s) ==
    /\ wrPc[s] \in {"start", "writing"}
    /\ fdw' = IF fdw = s THEN 0 ELSE fdw
    /\ wrPc' = [wrPc EXCEPT ![s] = "errsend"]
    /\ flags' = [flags EXCEPT ![s].wrFailed = TRUE]
    /\ UNCHANGED <<tcp, mu, wire, inbox, mainPc, rdPc, wrote, data, sendRes,
                   srvVars, doVars, ctxCancelled, utilVars, timeVars, shareVars>>

\* mutant: the read loop without the test for the bare 100 Continue
ReadTerminates_No100(d) ==
    \/ HasSuffix(d, chunkEnd)
    \/ Contains(d, icap204NoModsMsg)

\* the conditions on which the read loop stops after appending to data
ReadTerminates(d) ==
    \/ d = icap100ContinueMsg
    \/ HasSuffix(d, chunkEnd)
    \/ Contains(d, icap204NoModsMsg)

\* data = append(data, tmp[:n]...)
AppendRead(d, chunk) == d \o chunk

\* c.tcp.Read(tmp) returns n > 0 bytes: they are appended and the loop stops or goes on
ReaderRead(s) ==
    /\ rdPc[s] = "read"
    /\ tcp = "open"
    /\ inbox # <<>>
    /\ LET n == Min(Len(inbox), ReadBufSize)
           d == AppendRead(data[s], Take(inbox, n))
       IN  /\ data' = [data EXCEPT ![s] = d]
           /\ inbox' = Drop(inbox, n)
           /\ rdPc' = [rdPc EXCEPT ![s] = IF ReadTerminates(d) THEN "parse" ELSE "read"]
    /\ UNCHANGED <<tcp, mu, fdw, wire, mainPc, wrPc, wrote, sendRes, flags,
                   srvVars, doVars, ctxCancelled, utilVars, timeVars, shareVars>>

\* Read returns io.EOF: the loop stops
ReaderEOF(s) ==
    /\ rdPc[s] = "read"
    /\ tcp = "open"
    /\ inbox = <<>>
    /\ srvEOF
    /\ rdPc' = [rdPc EXCEPT ![s] = "parse"]
    /\ UNCHANGED <<tcp, mu, fdw, wire, inbox, mainPc, wrPc, wrote, data, sendRes, flags,
                   srvVars, doVars, ctxCancelled, utilVars, timeVars, shareVars>>

\* mutant: the read error is not sent on errChan, the loop just stops
ReaderFail_Swallowed(s) ==
    /\ rdPc[s] = "read"
    /\ rdPc' = [rdPc EXCEPT ![s] = "parse"]
    /\ flags' = [flags EXCEPT ![s].rdFailed = TRUE]
    /\ UNCHANGED <<tcp, mu, fdw, wire, inbox, mainPc, wrPc, wrote, data, sendRes,
                   srvVars, doVars, ctxCancelled, utilVars, timeVars, shareVars>>

\* Read returns another error (the socket is closed, or the network failed): the
\* reader task goes to send it on errChan
ReaderFail(s) ==
    /\ rdPc[s] = "read"
    /\ rdPc' = [rdPc EXCEPT ![s] = "errsend"]
    /\ flags' = [flags EXCEPT ![s].rdFailed = TRUE]
    /\ UNCHANGED <<tcp, mu, fdw, wire, inbox, mainPc, wrPc, wrote, data, sendRes,
                   srvVars, doVars, ctxCancelled, utilVars, timeVars, shareVars>>

\* after the loop: readResponse on the data; its error goes to errChan first
ReaderParse(s) ==
    /\ rdPc[s] = "parse"
    /\ rdPc' = [rdPc EXCEPT ![s] =
                    IF readResponse(data[s]).err # "nil" THEN "errsend2" ELSE "ressend"]
    /\ UNCHANGED <<tcp, mu, fdw, wire, inbox, mainPc, wrPc, wrote, data, sendRes, flags,
                   srvVars, doVars, ctxCancelled, utilVars, timeVars, shareVars>>

\* the tasks of Send s that are blocked sending on errChan, with their errors
ErrSenders(s) ==
    (IF wrPc[s] = "errsend" THEN {[task |-> "writer", err |-> {"write"}]} ELSE {})
    \cup (IF rdPc[s] = "errsend" THEN {[task |-> "reader", err |-> {"read"}]} ELSE {})
    \cup (IF rdPc[s] = "errsend2"
          THEN {[task |-> "reader", err |-> {readResponse(data[s]).err}]} ELSE {})

\* Send returns: the deferred c.mu.Unlock() runs
SendReturn(s, res) ==
    /\ mainPc' = [mainPc EXCEPT ![s] = "returned"]
    /\ mu' = 0
    /\ sendRes' = [sendRes EXCEPT ![s] = res]
    /\ flags' = [flags EXCEPT ![s].failedAtReturn = (wrPc[s] = "errsend")]

\* case err := <-errChan: the select takes the error of one blocked task, which
\* goes on (the reader to the end of its loop, or on to send its nil response)
SelectErr(s) ==
    /\ mainPc[s] = "select"
    /\ \E e \in ErrSenders(s) :
        /\ SendReturn(s, [NoResult EXCEPT !.kind = "err", !.err = e.err])
        /\ IF e.task = "writer"
           THEN wrPc' = [wrPc EXCEPT ![s] = "done"] /\ UNCHANGED rdPc
           ELSE /\ rdPc' = [rdPc EXCEPT ![s] = IF @ = "errsend" THEN "parse" ELSE "ressend"]
                /\ UNCHANGED wrPc
    /\ UNCHANGED <<tcp, fdw, wire, inbox, wrote, data, srvVars, doVars, ctxCancelled, utilVars, timeVars, shareVars>>

\* case res := <-resChan: the select takes the response of the reader task
SelectRes(s) ==
    /\ mainPc[s] = "select"
    /\ rdPc[s] = "ressend"
    /\ SendReturn(s, [kind |-> "resp", err |-> Nil,
                      resp |-> readResponse(data[s]), from |-> data[s]])
    /\ rdPc' = [rdPc EXCEPT ![s] = "done"]
    /\ UNCHANGED <<tcp, fdw, wire, inbox, wrPc, wrote, data, srvVars, doVars, ctxCancelled, utilVars, timeVars, shareVars>>

WriterStep(s) == WriteBegin(s) \/ WritePart(s) \/ WriteFail(s)

ReaderStep(s) == ReaderRead(s) \/ ReaderEOF(s) \/ ReaderFail(s) \/ ReaderParse(s)

SendStep(s) ==
    \/ SendCall(s) \/ SendLock(s)
    \/ SelectErr(s) \/ SelectRes(s)
    \/ WriterStep(s) \/ ReaderStep(s)

(***************************************************************************)
(* Client.Do and the request context.                                      *)
(***************************************************************************)
\* mutant: the test of done without the status of the reply
DoDone_AnyStatus(resp, r) ==
    ~(~r.bodyFittedInPreview /\ r.previewSet)

\* mutant: the test of done without req.previewSet
DoDone_NoPreviewSet(resp, r) ==
    ~(resp.StatusCode = StatusContinue /\ ~r.bodyFittedInPreview)

\* done := !(resp.StatusCode == http.StatusContinue && !req.bodyFittedInPreview && req.previewSet)
DoDone(resp, r) ==
    ~(resp.StatusCode = StatusContinue /\ ~r.bodyFittedInPreview /\ r.previewSet)

\* what the caller of Do gets: the results of Do are unnamed, so the values the
\* return statement evaluated, whatever the deferred function assigns to err
Returned(ret, joined) == ret

\* c.conn.Connect(req.ctx, req.URL.Host, 0): the dial fails (always so when the
\* context is cancelled) and Do returns, or it gives the socket; with timeout 0
\* no deadline is set
DoConnect ==
    /\ doPc = "connect"
    /\ \/ /\ ctxCancelled = "no"
          /\ tcp' = "open"
          /\ deadlines' = ConnectDeadlines(now, 0)
          /\ connectCall' = [called |-> TRUE, at |-> now, timeout |-> 0]
          /\ doPc' = "serialize"
          /\ hist' = [hist EXCEPT !.connects = @ + 1]
          /\ UNCHANGED <<doRet, errLocal>>
       \/ /\ LET e == IF ctxCancelled # "no" THEN {"canceled"} ELSE {"dial"}
             IN  /\ doRet' = [resp |-> NoResp, err |-> e]
                 /\ errLocal' = e
          /\ doPc' = "done"
          /\ hist' = [hist EXCEPT !.path = "connect_err"]
          /\ UNCHANGED <<tcp, deadlines, connectCall>>
    /\ UNCHANGED <<mu, fdw, wire, inbox, mainPc, wrPc, rdPc, wrote, data, sendRes, flags,
                   srvVars, req, closeErr, ctxCancelled, utilVars, now, opts, shareVars>>

\* req.setDefaultRequestHeaders() and the conversion to the ICAP message, which
\* may fail
DoSerialize ==
    /\ doPc = "serialize"
    /\ \/ /\ doPc' = "send1"
          /\ UNCHANGED <<doRet, errLocal, hist>>
       \/ /\ errLocal' = {"serialize"}
          /\ doRet' = [resp |-> NoResp, err |-> {"serialize"}]
          /\ doPc' = "close"
          /\ hist' = [hist EXCEPT !.path = "serialize_err"]
    /\ UNCHANGED <<connVars, srvVars, req, closeErr, ctxCancelled, utilVars, timeVars, shareVars>>

\* c.conn.Send(message), and c.conn.Send(data) with the remaining body bytes
DoSend(s) ==
    /\ doPc = (IF s = 1 THEN "send1" ELSE "send2")
    /\ mainPc[s] = "idle"
    /\ mainPc' = [mainPc EXCEPT ![s] = "call"]
    /\ doPc' = (IF s = 1 THEN "wait1" ELSE "wait2")
    /\ hist' = [hist EXCEPT !.sends = @ + 1]
    /\ UNCHANGED <<tcp, mu, fdw, wire, inbox, wrPc, rdPc, wrote, data, sendRes, flags,
                   srvVars, req, doRet, errLocal, closeErr, ctxCancelled, utilVars, timeVars, shareVars>>

\* mutant: the error of the first Send is returned without the deferred Close
DoAfterSend1_NoClose ==
    /\ doPc = "wait1"
    /\ mainPc[1] = "returned"
    /\ errLocal' = sendRes[1].err
    /\ IF sendRes[1].kind = "err"
       THEN /\ doRet' = [resp |-> NoResp, err |-> sendRes[1].err]
            /\ doPc' = "done"
            /\ hist' = [hist EXCEPT !.path = "send1_err"]
       ELSE IF DoDone(sendRes[1].resp, req)
       THEN /\ doRet' = [resp |-> sendRes[1].resp, err |-> Nil]
            /\ doPc' = "close"
            /\ hist' = [hist EXCEPT !.path = "single"]
       ELSE /\ doPc' = "send2"
            /\ UNCHANGED <<doRet, hist>>
    /\ UNCHANGED <<connVars, srvVars, req, closeErr, ctxCancelled, utilVars, timeVars, shareVars>>

\* the first Send has returned: its error is returned, or its response when the
\* exchange is done, or the second flight follows
DoAfterSend1 ==
    /\ doPc = "wait1"
    /\ mainPc[1] = "returned"
    /\ errLocal' = sendRes[1].err
    /\ IF sendRes[1].kind = "err"
       THEN /\ doRet' = [resp |-> NoResp, err |-> sendRes[1].err]
            /\ doPc' = "close"
            /\ hist' = [hist EXCEPT !.path = "send1_err"]
       ELSE IF DoDone(sendRes[1].resp, req)
       THEN /\ doRet' = [resp |-> sendRes[1].resp, err |-> Nil]
            /\ doPc' = "close"
            /\ hist' = [hist EXCEPT !.path = "single"]
       ELSE /\ doPc' = "send2"
            /\ UNCHANGED <<doRet, hist>>
    /\ UNCHANGED <<connVars, srvVars, req, closeErr, ctxCancelled, utilVars, timeVars, shareVars>>

\* the second Send has returned: its error or its response is returned
DoAfterSend2 ==
    /\ doPc = "wait2"
    /\ mainPc[2] = "returned"
    /\ errLocal' = sendRes[2].err
    /\ IF sendRes[2].kind = "err"
       THEN /\ doRet' = [resp |-> NoResp, err |-> sendRes[2].err]
            /\ hist' = [hist EXCEPT !.path = "send2_err"]
       ELSE /\ doRet' = [resp |-> sendRes[2].resp, err |-> sendRes[2].err]
            /\ hist' = [hist EXCEPT !.path = "two_flight"]
    /\ doPc' = "close"
    /\ UNCHANGED <<connVars, srvVars, req, closeErr, ctxCancelled, utilVars, timeVars, shareVars>>

\* the deferred function: err = errors.Join(err, c.conn.Close()); Close closes the
\* socket and may return an error; then Do has returned
DoClose ==
    /\ doPc = "close"
    /\ \E ce \in {Nil, {"close"}} :
        /\ closeErr' = ce
        /\ errLocal' = Join(errLocal, ce)
        /\ doRet' = Returned(doRet, Join(errLocal, ce))
    /\ tcp' = "closed"
    /\ doPc' = "done"
    /\ hist' = [hist EXCEPT !.closes = @ + 1]
    /\ UNCHANGED <<mu, fdw, wire, inbox, mainPc, wrPc, rdPc, wrote, data, sendRes, flags,
                   srvVars, req, ctxCancelled, utilVars, timeVars, shareVars>>

\* a Send call is in progress
InSend(s) == mainPc[s] \in {"call", "lock", "select"}

\* the owner of req.ctx cancels it, before the dial or while a Send is in progress
CtxCancel ==
    /\ ctxCancelled = "no"
    /\ \/ doPc = "connect" /\ ctxCancelled' = "before"
       \/ (\E s \in Sends : InSend(s)) /\ ctxCancelled' = "during"
    /\ UNCHANGED <<connVars, srvVars, doVars, utilVars, timeVars, shareVars>>

DoStep == DoConnect \/ DoSerialize \/ (\E s \in Sends : DoSend(s)) \/ DoAfterSend1
             \/ DoAfterSend2 \/ DoClose

ServerStep == ServerReply \/ ServerDeliver \/ ServerClose

Next == DoStep \/ (\E s \in Sends : SendStep(s)) \/ ServerStep \/ CtxCancel

Spec == Init /\ [][Next]_vars

(***************************************************************************)
(* Two users call Send on one connected connection at the same time.       *)
(***************************************************************************)
InitConn ==
    /\ InitCommon
    /\ tcp = "open"
    /\ doPc = "none"
    /\ req = [previewSet |-> FALSE, bodyFittedInPreview |-> FALSE]
    /\ fnArgs = NoCall
    /\ opts = NewClient([Timeout |-> 0])

\* a user calls Send
CallSend(s) ==
    /\ mainPc[s] = "idle"
    /\ mainPc' = [mainPc EXCEPT ![s] = "call"]
    /\ UNCHANGED <<tcp, mu, fdw, wire, inbox, wrPc, rdPc, wrote, data, sendRes, flags,
                   srvVars, doVars, ctxCancelled, utilVars, timeVars, shareVars>>

NextConn == (\E s \in Sends : CallSend(s) \/ SendStep(s)) \/ ServerStep

SpecConn == InitConn /\ [][NextConn]_vars

(***************************************************************************)
(* The deadline of the socket: users call Connect with a timeout and then  *)
(* Send on a connection whose server is silent, while time passes.  Read   *)
(* then returns only with an error, so that of the steps of Send only      *)
(* those that do not depend on received bytes are taken.                   *)
(***************************************************************************)
InitDeadline ==
    /\ InitCommon
    /\ tcp = "nil"
    /\ doPc = "none"
    /\ req = [previewSet |-> FALSE, bodyFittedInPreview |-> FALSE]
    /\ fnArgs = NoCall
    /\ opts = NewClient([Timeout |-> 0])

\* Connect(ctx, address, timeout): the dial fails, or it gives the socket, on
\* which the deadlines are set when the timeout is not 0
CallConnect(timeout) ==
    /\ ~connectCall.called
    /\ connectCall' = [called |-> TRUE, at |-> now, timeout |-> timeout]
    /\ \/ UNCHANGED <<tcp, deadlines>>
       \/ /\ tcp' = "open"
          /\ deadlines' = ConnectDeadlines(now, timeout)
    /\ UNCHANGED <<mu, fdw, wire, inbox, mainPc, wrPc, rdPc, wrote, data, sendRes, flags,
                   srvVars, doVars, ctxCancelled, utilVars, now, opts, shareVars>>

\* a user calls Send after Connect has returned
CallSendAfterConnect(s) ==
    /\ connectCall.called
    /\ CallSend(s)

\* a user calls Send on a connection on which Connect has not been called
CallSendUnconnected(s) ==
    /\ ~connectCall.called
    /\ CallSend(s)

\* a user calls Close: without socket (!c.ok()) it returns EINVAL, else it closes
\* the socket and returns what c.tcp.Close() returns
CallClose ==
    /\ hist.closes = 0
    /\ hist' = [hist EXCEPT !.closes = 1]
    /\ IF ok
       THEN /\ tcp' = "closed"
            /\ \E ce \in {Nil, {"close"}} : closeErr' = ce
       ELSE /\ closeErr' = {"EINVAL"}
            /\ UNCHANGED tcp
    /\ UNCHANGED <<mu, fdw, wire, inbox, mainPc, wrPc, rdPc, wrote, data, sendRes, flags,
                   srvVars, doPc, req, doRet, errLocal, ctxCancelled, utilVars, timeVars,
                   shareVars>>

\* a second passes
Tick ==
    /\ now < MaxTime
    /\ now' = now + 1
    /\ UNCHANGED <<connVars, srvVars, doVars, ctxCancelled, utilVars, deadlines,
                   connectCall, opts, shareVars>>

\* Read returns the timeout error once the read deadline has passed
ReadTimeout(s) ==
    /\ deadlines.rd # 0
    /\ now >= deadlines.rd
    /\ ReaderFail(s)

\* Write returns the timeout error once the write deadline has passed
WriteTimeout(s) ==
    /\ deadlines.wr # 0
    /\ now >= deadlines.wr
    /\ WriteFail(s)

NextDeadline ==
    \/ \E t \in 0..MaxTimeout : CallConnect(t)
    \/ Tick
    \/ CallClose
    \/ \E s \in Sends :
          \/ CallSendAfterConnect(s) \/ CallSendUnconnected(s)
          \/ SendCall(s) \/ SendLock(s)
          \/ WriterStep(s) \/ WriteTimeout(s)
          \/ ReaderFail(s) \/ ReadTimeout(s) \/ ReaderParse(s)
          \/ SelectErr(s)

SpecDeadline == InitDeadline /\ [][NextDeadline]_vars

(***************************************************************************)
(* Two calls of Client.Do on one Client: both use c.conn, the one ICAPConn *)
(* that NewClient made, and its field tcp. Each call is followed through   *)
(* its operations on sockets: Connect, the Write and the Read of its Send, *)
(* and Close.                                                              *)
(***************************************************************************)
InitShared ==
    /\ InitCommon
    /\ tcp = "nil"
    /\ doPc = "none"
    /\ req = [previewSet |-> FALSE, bodyFittedInPreview |-> FALSE]
    /\ fnArgs = NoCall
    /\ opts = NewClient([Timeout |-> 0])

\* what the actions of the two calls leave alone
SharedUnchanged ==
    UNCHANGED <<tcp, fdw, wire, inbox, mainPc, wrPc, rdPc, wrote, data, sendRes, flags,
                srvVars, doVars, ctxCancelled, utilVars, timeVars>>

\* caller i calls c.Do(req)
SharedDo(i) ==
    /\ callPc[i] = "none"
    /\ callPc' = [callPc EXCEPT ![i] = "connect"]
    /\ UNCHANGED <<mu, connTcp, sockets, sockUse>>
    /\ SharedUnchanged

\* c.conn.Connect: the dial fails and Do returns, or c.tcp = conn with the new
\* socket, whatever c.tcp held
SharedConnect(i) ==
    /\ callPc[i] = "connect"
    /\ \/ /\ callPc' = [callPc EXCEPT ![i] = "done"]
          /\ UNCHANGED <<connTcp, sockets>>
       \/ /\ sockets' = [sockets EXCEPT ![i] = "open"]
          /\ connTcp' = i
          /\ callPc' = [callPc EXCEPT ![i] = "send"]
    /\ UNCHANGED <<mu, sockUse>>
    /\ SharedUnchanged

\* c.conn.Send: c.ok() and c.mu.Lock(), and the two tasks are started
SharedSendLock(i) ==
    /\ callPc[i] = "send"
    /\ connTcp # 0
    /\ mu = 0
    /\ mu' = i
    /\ callPc' = [callPc EXCEPT ![i] = "exchange"]
    /\ UNCHANGED <<connTcp, sockets, sockUse>>
    /\ SharedUnchanged

\* the writer task: c.tcp.Write(in), on the socket that c.tcp holds now
SharedWrite(i) ==
    /\ callPc[i] = "exchange"
    /\ sockUse[i].write = 0
    /\ sockUse' = [sockUse EXCEPT ![i].write = connTcp]
    /\ UNCHANGED <<mu, callPc, connTcp, sockets>>
    /\ SharedUnchanged

\* the reader task: c.tcp.Read(tmp), on the socket that c.tcp holds now
SharedRead(i) ==
    /\ callPc[i] = "exchange"
    /\ sockUse[i].read = 0
    /\ sockUse' = [sockUse EXCEPT ![i].read = connTcp]
    /\ UNCHANGED <<mu, callPc, connTcp, sockets>>
    /\ SharedUnchanged

\* the select of Send receives the result of the reader or an error of a task
\* that has run, and the deferred c.mu.Unlock() runs
SharedSendReturn(i) ==
    /\ callPc[i] = "exchange"
    /\ sockUse[i].write # 0 \/ sockUse[i].read # 0
    /\ mu' = 0
    /\ callPc' = [callPc EXCEPT ![i] = "close"]
    /\ UNCHANGED <<connTcp, sockets, sockUse>>
    /\ SharedUnchanged

\* the deferred c.conn.Close(): c.tcp.Close(), on the socket that c.tcp holds now
SharedClose(i) ==
    /\ callPc[i] = "close"
    /\ connTcp # 0
    /\ sockets' = [sockets EXCEPT ![connTcp] = "closed"]
    /\ sockUse' = [sockUse EXCEPT ![i].close = connTcp]
    /\ callPc' = [callPc EXCEPT ![i] = "done"]
    /\ UNCHANGED <<mu, connTcp>>
    /\ SharedUnchanged

NextShared ==
    \E i \in Callers :
        \/ SharedDo(i) \/ SharedConnect(i) \/ SharedSendLock(i)
        \/ SharedWrite(i) \/ SharedRead(i) \/ SharedSendReturn(i)
        \/ SharedClose(i)

SpecShared == InitShared /\ [][NextShared]_vars

(***************************************************************************)
(* The serializer: the functions that turn a Request into the bytes of the *)
(* ICAP message and of the second flight.                                  *)
(***************************************************************************)
MethodOPTIONS == <<"O", "P", "T", "I", "O", "N", "S">>
MethodRESPMOD == <<"R", "E", "S", "P", "M", "O", "D">>
MethodREQMOD == <<"R", "E", "Q", "M", "O", "D">>
\* crlf + "0" + crlf
bodyEndIndicator == crlf \o <<"0">> \o crlf
\* "; ieof" + doubleCRLF
fullBodyEndIndicatorPreviewMode == <<";", " ", "i", "e", "o", "f">> \o doubleCRLF
encapsulatedHeader == <<"E", "n", "c", "a", "p", "s", "u", "l", "a", "t", "e", "d">>

\* strings.Index(s, p) from the position i on: the position (from 1) of the
\* first occurrence of p at or after i, 0 when there is none
IndexSubFrom(s, p, i) ==
    LET hits == {k \in i..(Len(s) - Len(p) + 1) : SubSeq(s, k, k + Len(p) - 1) = p}
    IN  IF hits = {} THEN 0 ELSE CHOOSE k \in hits : \A h \in hits : k <= h

\* strings.TrimSuffix
TrimSuffix(s, p) == IF HasSuffix(s, p) THEN SubSeq(s, 1, Len(s) - Len(p)) ELSE s

\* strings.Replace(s, old, new, 1) for a non-empty old
Replace1(s, old, new) ==
    LET i == IndexSubFrom(s, old, 1)
    IN  IF i = 0 THEN s ELSE SubSeq(s, 1, i - 1) \o new \o Drop(s, i + Len(old) - 1)

\* the digits of n in the base b, lowercase, without padding: the verbs %d and %x
HexDigits == Digits \o <<"a", "b", "c", "d", "e", "f">>

RECURSIVE FormatBase(_, _)
FormatBase(n, b) ==
    IF n < b THEN <<HexDigits[n + 1]>>
    ELSE FormatBase(n \div b, b) \o <<HexDigits[(n % b) + 1]>>

\* mutant: the length written in decimal
FormatHex_Decimal(n) == FormatBase(n, 10)

FormatHex(n) == FormatBase(n, 16)

FormatDec(n) == FormatBase(n, 10)

\* re.FindAllStringIndex(s, -1) for the expression doubleCRLF: the end offsets
\* of the successive matches, which do not overlap, from the position i on
RECURSIVE FindAllEnds(_, _)
FindAllEnds(s, i) ==
    LET at == IndexSubFrom(s, doubleCRLF, i)
    IN  IF at = 0 THEN <<>> ELSE <<at + 3>> \o FindAllEnds(s, at + 4)

FindAllStringIndex(s) == FindAllEnds(s, 1)

\* fmt.Sprintf(format, arg) with one string operand, for the verbs that occur in
\* the formats of this model: %s and %v take the operand, %% is a percent sign,
\* %d refuses a string; a verb without operand and an operand without verb are
\* reported in the output as fmt reports them
RECURSIVE SprintfFrom(_, _, _, _)
SprintfFrom(format, i, arg, used) ==
    LET at == IndexSubFrom(format, <<"%">>, i)
        verb == format[at + 1]
    IN  IF at = 0
        THEN SubSeq(format, i, Len(format))
             \o (IF used THEN <<>> ELSE <<"%", "!", "(", "E", "X", "T", "R", "A", " ", "s", "t", "r", "i", "n", "g", "=">> \o arg \o <<")">>)
        ELSE SubSeq(format, i, at - 1)
             \o (IF at = Len(format) THEN <<"%", "!", "(", "N", "O", "V", "E", "R", "B", ")">> \o SprintfFrom(format, at + 1, arg, used)
                 ELSE IF verb = "%" THEN <<"%">> \o SprintfFrom(format, at + 2, arg, used)
                 ELSE IF used
                 THEN <<"%", "!", verb>> \o <<"(", "M", "I", "S", "S", "I", "N", "G", ")">> \o SprintfFrom(format, at + 2, arg, used)
                 ELSE IF verb \in {"s", "v"} THEN arg \o SprintfFrom(format, at + 2, arg, TRUE)
                 ELSE <<"%", "!", verb>> \o <<"(", "s", "t", "r", "i", "n", "g", "=">> \o arg \o <<")">>
                      \o SprintfFrom(format, at + 2, arg, TRUE))

Sprintf(format, arg) == SprintfFrom(format, 1, arg, FALSE)

\* the value that setEncapsulatedHeaderValue computes, encpVal
EncapsulatedValue(icapReqStr, httpReqStr, httpRespStr) ==
    LET reqIndices == FindAllStringIndex(httpReqStr)
        respIndices == FindAllStringIndex(httpRespStr)
        options ==
            IF ~HasPrefix(icapReqStr, MethodOPTIONS) THEN <<>>
            ELSE IF httpReqStr = <<>> /\ httpRespStr = <<>> THEN <<"n", "u", "l", "l", "-", "b", "o", "d", "y", "=", "0">> ELSE <<"o", "p", "t", "-", "b", "o", "d", "y", "=", "0">>
        reqEndsAt ==
            IF reqIndices = <<>> THEN 0
            ELSE IF Len(reqIndices) > 1 THEN reqIndices[2] ELSE reqIndices[1]
        reqPart ==
            IF reqIndices = <<>> THEN <<>>
            ELSE <<"r", "e", "q", "-", "h", "d", "r", "=", "0">>
                 \o (IF Len(reqIndices) > 1
                     THEN <<",", " ", "r", "e", "q", "-", "b", "o", "d", "y", "=">> \o FormatDec(reqIndices[1])
                     ELSE IF httpRespStr = <<>>
                     THEN <<",", " ", "n", "u", "l", "l", "-", "b", "o", "d", "y", "=">> \o FormatDec(reqIndices[1])
                     ELSE <<>>)
                 \o (IF httpRespStr # <<>> THEN <<",", " ">> ELSE <<>>)
        respPart ==
            IF respIndices = <<>> THEN <<>>
            ELSE <<"r", "e", "s", "-", "h", "d", "r", "=">> \o FormatDec(reqEndsAt)
                 \o (IF Len(respIndices) > 1 THEN <<",", " ", "r", "e", "s", "-", "b", "o", "d", "y", "=">> ELSE <<",", " ", "n", "u", "l", "l", "-", "b", "o", "d", "y", "=">>)
                 \o FormatDec(reqEndsAt + respIndices[1])
    IN  <<" ">> \o options
        \o (IF HasPrefix(icapReqStr, MethodREQMOD) \/ HasPrefix(icapReqStr, MethodRESPMOD)
            THEN reqPart \o respPart ELSE <<>>)

\* setEncapsulatedHeaderValue generates the Encapsulated value and formats the
\* ICAP request string with it
setEncapsulatedHeaderValue(icapReqStr, httpReqStr, httpRespStr) ==
    Sprintf(icapReqStr, EncapsulatedValue(icapReqStr, httpReqStr, httpRespStr))

\* splitBodyAndHeader separates header and body of a http message at the first
\* double CRLF; it fails without double CRLF and with an empty body
splitBodyAndHeader(str) ==
    LET i == IndexSubFrom(str, doubleCRLF, 1)
    IN  IF i = 0 \/ Drop(str, i + 3) = <<>>
        THEN [ok |-> FALSE, headerStr |-> <<>>, bodyStr |-> <<>>]
        ELSE [ok |-> TRUE, headerStr |-> SubSeq(str, 1, i - 1), bodyStr |-> Drop(str, i + 3)]

\* s without all the CRLF at its end
RECURSIVE TrimCRLFs(_)
TrimCRLFs(s) == IF HasSuffix(s, crlf) THEN TrimCRLFs(SubSeq(s, 1, Len(s) - 2)) ELSE s

\* the expression \r\n0(\r\n)+$ matches s
MatchChunkedEnd(s) == TrimCRLFs(s) # s /\ HasSuffix(TrimCRLFs(s), crlf \o <<"0">>)

\* bodyAlreadyChunked determines if the http body is already chunked
bodyAlreadyChunked(str) ==
    LET sp == splitBodyAndHeader(str)
    IN  sp.ok /\ MatchChunkedEnd(sp.bodyStr)

\* parsePreviewBodyBytes keeps the first pb bytes of the body in the message;
\* bodyStr[:pb] panics when pb is beyond the end of the body
parsePreviewBodyBytes(str, pb) ==
    LET sp == splitBodyAndHeader(str)
    IN  IF ~sp.ok THEN [panic |-> FALSE, str |-> str]
        ELSE IF pb > Len(sp.bodyStr) THEN [panic |-> TRUE, str |-> <<>>]
        ELSE [panic |-> FALSE,
              str |-> sp.headerStr \o doubleCRLF \o SubSeq(sp.bodyStr, 1, pb)]

\* addHexBodyByteNotations: fmt.Sprintf("%x%s%s%s", len(bodyBytes), crlf, *bodyStr, bodyEndIndicator)
addHexBodyByteNotations(bodyStr) ==
    FormatHex(Len(bodyStr)) \o crlf \o bodyStr \o bodyEndIndicator

mergeHeaderAndBody(headerStr, bodyStr) == headerStr \o doubleCRLF \o bodyStr

\* addFullBodyInPreviewIndicator puts "; ieof" and a double CRLF in the place of
\* one double CRLF at the end
addFullBodyInPreviewIndicator(str) ==
    TrimSuffix(str, doubleCRLF) \o fullBodyEndIndicatorPreviewMode

replaceRequestURIWithActualURL(str, uri, url) ==
    Replace1(str, IF uri = <<>> THEN <<"/">> ELSE uri, url)

\* the embedded HTTP messages: none, or the head (start line and header lines)
\* and the body of one
NoMsg == [nil |-> TRUE, head |-> <<>>, body |-> <<>>]

HTTPReqHead == <<"P", "O", "S", "T", " ", "/", " ", "H", "T", "T", "P", "/", "1", ".", "1">> \o crlf \o <<"H", "o", "s", "t", ":", " ", "h">>

HTTPRespHead == <<"H", "T", "T", "P", "/", "1", ".", "0", " ", "2", "0", "0", " ", "O", "K">> \o crlf \o <<"C", "o", "n", "t", "e", "n", "t", "-", "T", "y", "p", "e", ":", " ", "t">>

\* the URL of the embedded request, whose escaped path is empty
HTTPReqURL == <<"h", "t", "t", "p", ":", "/", "/", "h">>

ICAPURL == <<"i", "c", "a", "p", ":", "/", "/", "i", "/", "s">>

\* httputil.DumpRequestOut(r, true) and httputil.DumpResponse(r, true): start
\* line and header lines, an empty line, the body
DumpMessage(m) == m.head \o doubleCRLF \o m.body

\* the lines "name: value" of the headers in the order hs
RECURSIVE HeaderLines(_)
HeaderLines(hs) ==
    IF hs = <<>> THEN <<>>
    ELSE Head(hs)[1] \o <<":", " ">> \o Head(hs)[2] \o crlf \o HeaderLines(Tail(hs))

\* req.Header.Get(name): the value of the header, empty when it is not set
HeaderGet(header, name) ==
    IF \E h \in header : h[1] = name THEN (CHOOSE h \in header : h[1] = name)[2] ELSE <<>>

\* the body of a message block in chunked form: left alone when it is chunked
\* already or when the block has no body
ChunkBody(str) ==
    LET sp == splitBodyAndHeader(str)
    IN  IF ~bodyAlreadyChunked(str) /\ sp.ok
        THEN mergeHeaderAndBody(sp.headerStr, addHexBodyByteNotations(sp.bodyStr))
        ELSE str

\* for !strings.HasSuffix(httpReqStr, doubleCRLF) { httpReqStr += crlf }
RECURSIVE PadToDoubleCRLF(_)
PadToDoubleCRLF(s) == IF HasSuffix(s, doubleCRLF) THEN s ELSE PadToDoubleCRLF(s \o crlf)

\* mutant: the response block is left as it is
PadOnce_None(s) == s

\* if httpRespStr != "" && !strings.HasSuffix(httpRespStr, doubleCRLF) { httpRespStr += crlf }
PadOnce(s) == IF s # <<>> /\ ~HasSuffix(s, doubleCRLF) THEN s \o crlf ELSE s

\* toICAPMessage returns the given request in its ICAP/1.x wire form, data; the
\* headers of the request are written in the order hs, the order of the map.
\* httpReqStr and httpRespStr are its two locals as they are when the
\* Encapsulated value is filled in
toICAPMessage(r, hs) ==
    LET reqLine == r.Method \o <<" ">> \o r.URL \o <<" ">> \o icapVersion \o crlf
        template == reqLine \o HeaderLines(hs) \o encapsulatedHeader
                    \o <<":", " ", "%", "s">> \o crlf \o crlf
        reqDump == replaceRequestURIWithActualURL(DumpMessage(r.HTTPRequest), <<>>, HTTPReqURL)
        reqPrev == IF r.Method = MethodREQMOD /\ r.previewSet
                   THEN parsePreviewBodyBytes(reqDump, r.PreviewBytes)
                   ELSE [panic |-> FALSE, str |-> reqDump]
        httpReqStr == IF r.HTTPRequest.nil THEN <<>>
                      ELSE PadToDoubleCRLF(IF r.Method = MethodREQMOD
                                           THEN ChunkBody(reqPrev.str) ELSE reqPrev.str)
        respDump == DumpMessage(r.HTTPResponse)
        respPrev == IF r.previewSet THEN parsePreviewBodyBytes(respDump, r.PreviewBytes)
                    ELSE [panic |-> FALSE, str |-> respDump]
        respChunked == ChunkBody(respPrev.str)
        httpRespStr == IF r.HTTPResponse.nil THEN <<>> ELSE PadOnce(respChunked)
        encpVal == HeaderGet(r.Header, encapsulatedHeader)
        reqStr == IF encpVal # <<>> THEN Sprintf(template, encpVal)
                  ELSE setEncapsulatedHeaderValue(template, httpReqStr, httpRespStr)
        respFinal == IF httpRespStr # <<>> /\ r.previewSet /\ r.bodyFittedInPreview
                     THEN addFullBodyInPreviewIndicator(httpRespStr) ELSE httpRespStr
        reqFinal == IF r.Method = MethodREQMOD /\ r.previewSet /\ r.bodyFittedInPreview
                    THEN addFullBodyInPreviewIndicator(httpReqStr) ELSE httpReqStr
    IN  IF (~r.HTTPRequest.nil /\ reqPrev.panic) \/ (~r.HTTPResponse.nil /\ respPrev.panic)
        THEN [panic |-> TRUE, data |-> <<>>, httpReqStr |-> <<>>, httpRespStr |-> <<>>]
        ELSE [panic |-> FALSE, data |-> reqStr \o reqFinal \o respFinal,
              httpReqStr |-> httpReqStr, httpRespStr |-> httpRespStr]

\* mutant: the remaining bytes are sent as they are
secondFlightData_Raw(remaining) == remaining

\* the bytes of the second flight that Client.Do makes of req.remainingPreviewBytes
secondFlightData(remaining) ==
    LET chunked == IF ~bodyAlreadyChunked(remaining)
                   THEN addHexBodyByteNotations(remaining) ELSE remaining
    IN  IF ~HasSuffix(chunked, doubleCRLF) THEN chunked \o crlf ELSE chunked

(***************************************************************************)
(* The requests and the byte strings the serializer is called with.        *)
(***************************************************************************)
\* the concatenations of at most n of the strings in tokens
RECURSIVE TokenStrings(_, _)
TokenStrings(tokens, n) ==
    IF n = 0 THEN {<<>>}
    ELSE LET shorter == TokenStrings(tokens, n - 1)
         IN  shorter \cup {s \o t : s \in shorter, t \in tokens}

\* a request as NewRequest makes it
NewRequest(method, httpReq, httpResp) ==
    [Method |-> method, URL |-> ICAPURL, Header |-> {},
     HTTPRequest |-> httpReq, HTTPResponse |-> httpResp,
     previewSet |-> FALSE, PreviewBytes |-> 0, bodyFittedInPreview |-> FALSE,
     remainingPreviewBytes |-> <<>>]

\* mutant: the preview is not cut down to the length of the body
SetPreview_Unclamped(r, n) ==
    LET body == IF r.Method = MethodREQMOD THEN r.HTTPRequest.body ELSE r.HTTPResponse.body
    IN  [r EXCEPT !.previewSet = TRUE,
                  !.PreviewBytes = n,
                  !.Header = {h \in @ : h[1] # previewHeader}
                             \cup {<<previewHeader, FormatDec(n)>>},
                  !.remainingPreviewBytes = Drop(body, n),
                  !.bodyFittedInPreview = (Len(body) <= n)]

\* SetPreview(n): at most n bytes of the embedded body are allocated to the
\* preview, the Preview header is set to their number, the rest of the body is
\* kept as the remaining bytes, and the body fitted when it has at most n bytes
SetPreview(r, n) ==
    LET body == IF r.Method = MethodREQMOD THEN r.HTTPRequest.body ELSE r.HTTPResponse.body
        allocated == Min(n, Len(body))
    IN  [r EXCEPT !.previewSet = TRUE,
                  !.PreviewBytes = allocated,
                  !.Header = {h \in @ : h[1] # previewHeader}
                             \cup {<<previewHeader, FormatDec(allocated)>>},
                  !.remainingPreviewBytes = Drop(body, allocated),
                  !.bodyFittedInPreview = (Len(body) <= n)]

\* req.Header.Set(name, val)
SetHeader(r, name, val) ==
    [r EXCEPT !.Header = {h \in @ : h[1] # name} \cup {<<name, val>>}]

BodyTokens == {<<"a">>, <<"0">>, crlf}

\* a body that ends as a chunked body does, with three CRLF
ChunkedTail == crlf \o <<"0">> \o crlf \o crlf \o crlf

MsgBodies == TokenStrings(BodyTokens, MaxMsgTokens) \cup {ChunkedTail}

\* the value of an Encapsulated header that the caller sets
CallerEncapsulated == <<"o", "p", "t", "-", "b", "o", "d", "y", "=", "0">>

\* a header of the caller whose value holds a percent sign and a letter
PercentHeader == <<<<"X">>, <<"1", "0", "0", "%", "s">>>>

ICAPRequests ==
    LET reqmod == {NewRequest(MethodREQMOD,
                              [nil |-> FALSE, head |-> HTTPReqHead, body |-> b], NoMsg) :
                       b \in MsgBodies}
        respmod == {NewRequest(MethodRESPMOD,
                               [nil |-> FALSE, head |-> HTTPReqHead, body |-> <<>>],
                               [nil |-> FALSE, head |-> HTTPRespHead, body |-> b]) :
                        b \in MsgBodies}
        plain == reqmod \cup respmod \cup {NewRequest(MethodOPTIONS, NoMsg, NoMsg)}
        preview == {SetPreview(r, n) : r \in reqmod \cup respmod, n \in 0..MaxPreview}
        base == plain \cup preview
        encapsulated == {SetHeader(r, encapsulatedHeader, CallerEncapsulated) : r \in base}
    IN  base \cup encapsulated
        \cup {SetHeader(r, PercentHeader[1], PercentHeader[2]) : r \in encapsulated}

\* the orders in which the headers of a request may be written
Orderings(header) ==
    {hs \in [1..Cardinality(header) -> header] :
        \A i, j \in 1..Cardinality(header) : hs[i] = hs[j] => i = j}

\* "METHOD", a line end and the Encapsulated line to fill in, as the tests of
\* setEncapsulatedHeaderValue give it
ICAPReqStr(method) ==
    method \o crlf \o encapsulatedHeader \o <<":", " ", "%", "s">> \o doubleCRLF

\* a message block whose body holds a double CRLF: header, body and the padding
BodyWithDoubleCRLF ==
    <<"a">> \o doubleCRLF \o <<"a">> \o doubleCRLF \o <<"a">> \o doubleCRLF

BlockStrings == TokenStrings({<<"a">>, crlf}, MaxBlockTokens) \cup {BodyWithDoubleCRLF}

HTTPMessages ==
    TokenStrings(BodyTokens, MaxBodyTokens)
    \cup {HTTPReqHead \o doubleCRLF \o b : b \in TokenStrings(BodyTokens, MaxBodyTokens)}

\* a string of n bytes
RECURSIVE Bytes(_)
Bytes(n) == IF n = 0 THEN <<>> ELSE Bytes(n - 1) \o <<"a">>

\* the replies given to readResponse: the tokens of the status line after the
\* version, the header lines of the ICAP header block as pairs of name and value,
\* and the embedded HTTP message (the tokens of its start line, its header lines
\* and its body)
StatusTokens ==
    {<<<<"2", "0", "0">>, <<"O", "K">>>>, <<<<"2", "0", "4">>, <<"N", "o">>, <<"M", "o", "d", "i", "f", "i", "c", "a", "t", "i", "o", "n", "s">>>>, <<<<"x">>, <<"O", "K">>>>, <<<<"2", "0", "0">>>>}

ReplyHeaders ==
    {<<<<"P", "r", "e", "v", "i", "e", "w">>, <<"4">>>>, <<<<"p", "r", "e", "v", "i", "e", "w">>, <<"4">>>>, <<<<"A">>, <<"b">>>>, <<<<"A">>, <<"c">>>>, <<<<"S", "e", "r", "v", "e", "r">>, <<"I", "C", "A", "P", "/", "1", ".", "0">>>>}

NoEmbedded == [start |-> <<>>, header |-> <<>>, body |-> <<>>]

EmbeddedMessages ==
    {NoEmbedded,
     [start |-> <<<<"G", "E", "T">>, <<"/">>, <<"H", "T", "T", "P", "/", "1", ".", "1">>>>, header |-> <<"H", "o", "s", "t", ":", " ", "h">>, body |-> <<>>],
     [start |-> <<<<"H", "T", "T", "P", "/", "1", ".", "1">>, <<"2", "0", "0">>, <<"O", "K">>>>, header |-> <<"C", "o", "n", "t", "e", "n", "t", "-", "T", "y", "p", "e", ":", " ", "t">>, body |-> <<>>],
     [start |-> <<<<"H", "T", "T", "P", "/", "1", ".", "0">>, <<"2", "0", "0">>, <<"O", "K">>>>, header |-> <<"C", "o", "n", "t", "e", "n", "t", "-", "T", "y", "p", "e", ":", " ", "t">>, body |-> <<>>],
     [start |-> <<<<"H", "T", "T", "P", "/", "1", ".", "1">>, <<"2", "0", "0">>, <<"O", "K">>>>, header |-> <<"C", "o", "n", "t", "e", "n", "t", "-", "T", "y", "p", "e", ":", " ", "t">>, body |-> <<"I", "C", "A", "P", "/", "1", ".", "0", " ", "5", "0", "0", " ", "x", "\r", "\n">>],
     [start |-> <<<<"H", "T", "T", "P", "/", "1", ".", "1">>, <<"2", "0", "0">>>>, header |-> <<"C", "o", "n", "t", "e", "n", "t", "-", "T", "y", "p", "e", ":", " ", "t">>, body |-> <<>>]}

\* the sequences of at most n elements of the set s
RECURSIVE SeqsUpTo(_, _)
SeqsUpTo(s, n) ==
    IF n = 0 THEN {<<>>}
    ELSE LET shorter == SeqsUpTo(s, n - 1)
         IN  shorter \cup {Append(q, x) : q \in shorter, x \in s}

ParserReplies ==
    [status : StatusTokens, header : SeqsUpTo(ReplyHeaders, MaxReplyHeaders),
     embedded : EmbeddedMessages]

\* the lines "name: value" of the header block hs
RECURSIVE ReplyHeaderLines(_)
ReplyHeaderLines(hs) ==
    IF hs = <<>> THEN <<>>
    ELSE Head(hs)[1] \o <<":", " ">> \o Head(hs)[2] \o crlf \o ReplyHeaderLines(Tail(hs))

\* the bytes of a reply as the server sends them
ReplyBytes(reply) ==
    JoinSp(<<icapVersion>> \o reply.status) \o crlf
    \o ReplyHeaderLines(reply.header) \o crlf
    \o (IF reply.embedded = NoEmbedded THEN <<>>
        ELSE JoinSp(reply.embedded.start) \o crlf
             \o reply.embedded.header \o crlf \o crlf \o reply.embedded.body)

\* the calls of NewRequest: whether a context is given, the method, the scheme
\* and the host of the URL, whether an HTTP request and an HTTP response are given
NewRequestCalls ==
    [ctx : BOOLEAN,
     method : {MethodOPTIONS, MethodREQMOD, MethodRESPMOD, <<"i", "n", "v", "a", "l", "i", "d">>},
     scheme : {schemeICAP, "http"},
     host : {"", "localhost:1344"},
     httpReq : BOOLEAN,
     httpResp : BOOLEAN]

\* mutant: a REQMOD request with a response is let through
NewRequestErrors_RespIgnored(a) ==
    {e \in {"ErrNoContext", "ErrInvalidScheme", "ErrInvalidHost", "ErrMethodNotAllowed",
            "ErrREQMODWithoutReq", "ErrRESPMODWithoutResp"} :
        \/ e = "ErrNoContext" /\ ~a.ctx
        \/ e = "ErrInvalidScheme" /\ a.scheme # schemeICAP
        \/ e = "ErrInvalidHost" /\ a.host = ""
        \/ e = "ErrMethodNotAllowed"
              /\ a.method \notin {MethodOPTIONS, MethodREQMOD, MethodRESPMOD}
        \/ e = "ErrREQMODWithoutReq" /\ a.method = MethodREQMOD /\ ~a.httpReq
        \/ e = "ErrRESPMODWithoutResp" /\ a.method = MethodRESPMOD /\ ~a.httpResp}

\* the errors NewRequest may fail with: those whose condition the arguments meet
NewRequestErrors(a) ==
    {e \in {"ErrNoContext", "ErrInvalidScheme", "ErrInvalidHost", "ErrMethodNotAllowed",
            "ErrREQMODWithoutReq", "ErrREQMODWithResp", "ErrRESPMODWithoutResp"} :
        \/ e = "ErrNoContext" /\ ~a.ctx
        \/ e = "ErrInvalidScheme" /\ a.scheme # schemeICAP
        \/ e = "ErrInvalidHost" /\ a.host = ""
        \/ e = "ErrMethodNotAllowed"
              /\ a.method \notin {MethodOPTIONS, MethodREQMOD, MethodRESPMOD}
        \/ e = "ErrREQMODWithoutReq" /\ a.method = MethodREQMOD /\ ~a.httpReq
        \/ e = "ErrREQMODWithResp" /\ a.method = MethodREQMOD /\ a.httpResp
        \/ e = "ErrRESPMODWithoutResp" /\ a.method = MethodRESPMOD /\ ~a.httpResp}

\* the calls of SetPreview: a REQMOD or RESPMOD request with a body, and n
SetPreviewCalls ==
    {[req |-> NewRequest(m, [nil |-> FALSE, head |-> HTTPReqHead,
                             body |-> IF m = MethodREQMOD THEN b ELSE <<>>],
                         IF m = MethodREQMOD THEN NoMsg
                         ELSE [nil |-> FALSE, head |-> HTTPRespHead, body |-> b]),
      n |-> n] :
        m \in {MethodREQMOD, MethodRESPMOD}, b \in MsgBodies, n \in 0..MaxPreview}

UtilCalls ==
    {[op |-> "setEncapsulatedHeaderValue", icapReqStr |-> ICAPReqStr(m),
      httpReqStr |-> q, httpRespStr |-> p] :
        m \in {MethodOPTIONS, MethodREQMOD, MethodRESPMOD}, q \in BlockStrings, p \in BlockStrings}
    \cup {[op |-> "toICAPMessage", req |-> r] : r \in ICAPRequests}
    \cup {[op |-> "secondFlightData", remaining |-> b] : b \in TokenStrings(BodyTokens, MaxBodyTokens)}
    \cup {[op |-> "addHexBodyByteNotations", bodyStr |-> b] :
            b \in TokenStrings(BodyTokens, MaxBodyTokens) \cup {Bytes(n) : n \in 0..MaxHexLen}}
    \cup {[op |-> "parsePreviewBodyBytes", str |-> m, pb |-> n] :
            m \in HTTPMessages, n \in 0..MaxPreview}
    \cup {[op |-> "readResponse", reply |-> r] : r \in ParserReplies}
    \cup {[op |-> "NewRequest", args |-> a] : a \in NewRequestCalls}
    \cup {[op |-> "SetPreview", req |-> c.req, n |-> c.n] : c \in SetPreviewCalls}

InitUtil ==
    /\ InitCommon
    /\ tcp = "nil"
    /\ doPc = "none"
    /\ req = [previewSet |-> FALSE, bodyFittedInPreview |-> FALSE]
    /\ fnArgs \in UtilCalls
    /\ opts = NewClient([Timeout |-> 0])

\* the call returns r
Return(r) ==
    /\ ~fnRet.done
    /\ fnRet' = [done |-> TRUE, val |-> r]
    /\ UNCHANGED <<connVars, srvVars, doVars, ctxCancelled, fnArgs, timeVars, shareVars>>

CallSetEncapsulatedHeaderValue ==
    /\ fnArgs.op = "setEncapsulatedHeaderValue"
    /\ Return([encpVal |-> EncapsulatedValue(fnArgs.icapReqStr, fnArgs.httpReqStr,
                                             fnArgs.httpRespStr),
               icapReqStr |-> setEncapsulatedHeaderValue(fnArgs.icapReqStr, fnArgs.httpReqStr,
                                                         fnArgs.httpRespStr)])

CallToICAPMessage ==
    /\ fnArgs.op = "toICAPMessage"
    /\ \E hs \in Orderings(fnArgs.req.Header) : Return(toICAPMessage(fnArgs.req, hs))

CallSecondFlightData ==
    /\ fnArgs.op = "secondFlightData"
    /\ Return(secondFlightData(fnArgs.remaining))

CallAddHexBodyByteNotations ==
    /\ fnArgs.op = "addHexBodyByteNotations"
    /\ Return(addHexBodyByteNotations(fnArgs.bodyStr))

CallParsePreviewBodyBytes ==
    /\ fnArgs.op = "parsePreviewBodyBytes"
    /\ Return(parsePreviewBodyBytes(fnArgs.str, fnArgs.pb))

CallReadResponse ==
    /\ fnArgs.op = "readResponse"
    /\ Return(readResponse(ReplyBytes(fnArgs.reply)))

\* NewRequest returns the request, or fails with an error that matches
CallNewRequest ==
    /\ fnArgs.op = "NewRequest"
    /\ LET errs == NewRequestErrors(fnArgs.args)
       IN  IF errs = {} THEN Return([err |-> "nil"])
           ELSE \E e \in errs : Return([err |-> e])

CallSetPreview ==
    /\ fnArgs.op = "SetPreview"
    /\ Return(SetPreview(fnArgs.req, fnArgs.n))

NextUtil ==
    \/ CallSetEncapsulatedHeaderValue
    \/ CallToICAPMessage
    \/ CallSecondFlightData
    \/ CallAddHexBodyByteNotations
    \/ CallParsePreviewBodyBytes
    \/ CallReadResponse
    \/ CallNewRequest
    \/ CallSetPreview

SpecUtil == InitUtil /\ [][NextUtil]_vars

(***************************************************************************)
(* The claims.                                                             *)
(***************************************************************************)
Continue == <<"C", "o", "n", "t", "i", "n", "u", "e">>

\* the other Send call
Other(s) == 3 - s

\* the bytes the server sent that Send s has not read
Unread == inbox \o Flatten(srvPending)

\* the guards of ReaderParse and of SelectRes
CanParse(s) == rdPc[s] = "parse"

CanSelectRes(s) == mainPc[s] = "select" /\ rdPc[s] = "ressend"

\* C1: once the bytes accumulated by the reader of a Send equal exactly
\* ICAP/1.0 100 Continue CRLF CRLF, the reader has left its read loop (it does
\* not wait for more bytes of the server), the Send is not blocked (the parse
\* or the delivery of the response is enabled until it has returned), and a
\* response it returns is the
\* parse of exactly those bytes: status 100 Continue.
C1_Returns100 ==
    \A s \in Sends :
        data[s] = icap100ContinueMsg =>
            /\ rdPc[s] \in {"parse", "ressend", "done"}
            /\ mainPc[s] = "select" => CanParse(s) \/ CanSelectRes(s)
            /\ sendRes[s].kind = "resp" =>
                   /\ sendRes[s].from = icap100ContinueMsg
                   /\ sendRes[s].resp.StatusCode = 100
                   /\ sendRes[s].resp.Status = Continue

\* the first Send has returned the 100 Continue while the server keeps the
\* connection open and has sent nothing more
C1_Witness ==
    /\ mainPc[1] = "returned"
    /\ sendRes[1].kind = "resp"
    /\ sendRes[1].from = icap100ContinueMsg
    /\ ~srvEOF
    /\ Unread = <<>>
    /\ srvCount = 1

\* the condition on which Client.Do sends the second flight
NeedsSecond ==
    /\ sendRes[1].kind = "resp"
    /\ sendRes[1].resp.StatusCode = 100
    /\ req.previewSet
    /\ ~req.bodyFittedInPreview

\* C2: Client.Do issues the second Send, on the same connection, if and only if
\* the first reply has status 100 and preview was set and the body did not fit;
\* otherwise it performs exactly one Send and returns the first reply with a nil
\* error; it never performs more than two Sends and never connects again.
C2_SecondSendIff ==
    /\ hist.sends <= 2
    /\ hist.connects <= 1
    /\ mainPc[2] # "idle" => NeedsSecond /\ mainPc[1] = "returned"
    /\ doPc = "done" /\ hist.sends >= 1 =>
           /\ hist.sends = 2 <=> NeedsSecond
           /\ hist.sends = 1 /\ sendRes[1].kind = "resp" =>
                  doRet = [resp |-> sendRes[1].resp, err |-> Nil]

\* Do has returned after a second Send
C2_Witness ==
    /\ doPc = "done"
    /\ hist.sends = 2
    /\ NeedsSecond
    /\ sendRes[2].kind = "resp"

\* C3: in a preview exchange every part of the first flight is written to the
\* socket before any part of the second flight.
C3_FlightOrder ==
    \A i, j \in 1..Len(wire) : i < j => ~(wire[i] = 2 /\ wire[j] = 1)

\* a task of Send s still has a socket operation to do or in progress
Unfinished(s) == wrPc[s] \in {"start", "writing"} \/ rdPc[s] = "read"

\* C4: the socket use of two concurrent Send calls never overlaps: the tasks of
\* one Send have finished their writes and reads before a task of the other one
\* uses the socket, and the parts of the two payloads are not interleaved.
C4_NoOverlap ==
    /\ \A s \in Sends : ~(Unfinished(s) /\ Unfinished(Other(s)))
    /\ \A i, j, k \in 1..Len(wire) : i < j /\ j < k => ~(wire[i] = wire[k] /\ wire[j] # wire[i])

\* C5: when Connect succeeded Client.Do calls Close exactly once before it
\* returns, on every return path; when Connect failed neither Send nor Close is
\* called.
C5_CloseOnce ==
    /\ hist.closes <= 1
    /\ hist.closes = 1 => doPc = "done" /\ hist.connects = 1
    /\ doPc = "done" => hist.closes = hist.connects
    /\ hist.connects = 0 => hist.sends = 0 /\ hist.closes = 0 /\ tcp = "nil"
    /\ doPc = "done" /\ hist.connects = 1 => tcp = "closed"

\* Do has returned the error of the first Send, after the Close
C5_Witness ==
    /\ doPc = "done"
    /\ hist.path = "send1_err"
    /\ hist.closes = 1
    /\ tcp = "closed"

\* C6: when the Close at the end of Client.Do returns an error, the error that
\* Do returns contains it.
C6_CloseErrReturned ==
    doPc = "done" /\ closeErr # Nil => closeErr \subseteq doRet.err

\* C7: when a socket read of a Send fails with an error other than the end of
\* the stream, the Send returns an error and never a response.
C7_ReadErrNoResponse ==
    \A s \in Sends :
        flags[s].rdFailed =>
            /\ sendRes[s].kind # "resp"
            /\ mainPc[s] = "returned" => sendRes[s].kind = "err" /\ sendRes[s].err # Nil

\* a Send has returned the error of its failed read
C7_Witness ==
    \E s \in Sends :
        /\ flags[s].rdFailed
        /\ mainPc[s] = "returned"
        /\ sendRes[s].err = {"read"}

\* C8: when the socket write of a Send has failed, the Send returns an error and
\* never a response, however its tasks are scheduled.
C8_WriteErrNoResponse ==
    \A s \in Sends : flags[s].failedAtReturn => sendRes[s].kind = "err"

\* C9: when the context of the request is cancelled while a Send is in
\* progress, the call returns the cancellation error, with the connection closed.
C9_CancelReturned ==
    doPc = "done" /\ ctxCancelled = "during" =>
        "canceled" \in doRet.err /\ tcp = "closed"

\* C10: when the server sends prefix, 204 marker and suffix, the
\* result of Send is built from all of it, no byte the server sent being dropped.
C10_FullBuffer ==
    \A s \in Sends :
        /\ sendRes[s].kind = "resp"
        /\ Contains(sendRes[s].from, icap204NoModsMsg)
        /\ srvPending = <<>>
        /\ sendRes[s].from \o inbox = Reply204
        => sendRes[s].from = Reply204

\* the text "No Modifications"
NoModifications ==
    <<"N", "o", " ", "M", "o", "d", "i", "f", "i", "c", "a", "t", "i", "o", "n", "s">>

\* C11: once the bytes a Send has received end with a double CRLF, its reader
\* has left the read loop (it does not wait for more bytes, for the end of the
\* stream or for a deadline), and a result it returns is built from exactly
\* those bytes.
C11_ReturnsAtDoubleCRLF ==
    \A s \in Sends :
        HasSuffix(data[s], doubleCRLF) =>
            /\ rdPc[s] # "read"
            /\ sendRes[s].kind = "resp" => sendRes[s].from = data[s]

\* C12: once a Send has received the reply ICAP/1.0 204 No Modifications with
\* its header block, its reader has left the read loop although the server keeps
\* the connection open, and the response that Client.Do returns for it has
\* status 204 No Modifications and no embedded message.
C12_NoModificationsReturned ==
    /\ \A s \in Sends : data[s] = Reply204NoMods /\ ~srvEOF => rdPc[s] # "read"
    /\ doPc = "done" /\ hist.path = "single" /\ sendRes[1].from = Reply204NoMods =>
           /\ doRet.err = Nil
           /\ doRet.resp.StatusCode = 204
           /\ doRet.resp.Status = NoModifications
           /\ doRet.resp.ContentRequest = <<>>
           /\ doRet.resp.ContentResponse = <<>>

\* the pieces of s between the occurrences of sep
RECURSIVE SplitSub(_, _)
SplitSub(s, sep) ==
    LET i == IndexSubFrom(s, sep, 1)
    IN  IF i = 0 THEN <<s>>
        ELSE <<SubSeq(s, 1, i - 1)>> \o SplitSub(Drop(s, i + Len(sep) - 1), sep)

\* a call of the serializer has returned
Called(op) == fnArgs.op = op /\ fnRet.done

\* the pieces "name=offset" of an Encapsulated value after its first byte, each
\* with its name and its offset; a piece that is no such pair has the name ""
SectionsOf(encpVal) ==
    IF Len(encpVal) <= 1 THEN <<>>
    ELSE LET pieces == SplitSub(Drop(encpVal, 1), <<",", " ">>)
         IN  [i \in 1..Len(pieces) |->
                LET eq == Index(pieces[i], "=")
                    off == Atoi(Drop(pieces[i], eq))
                IN  IF eq = 0 \/ ~off.ok THEN [name |-> <<>>, off |-> 0]
                    ELSE [name |-> SubSeq(pieces[i], 1, eq - 1), off |-> off.val]]

\* the sections that the value is to name for the method and the two blocks; a
\* block is a message when it has a double CRLF, and the last message has no
\* body when it has exactly one
ExpectedSections(icapReqStr, httpReqStr, httpRespStr) ==
    LET r == Len(FindAllStringIndex(httpReqStr))
        p == Len(FindAllStringIndex(httpRespStr))
        last == IF p >= 1 THEN p ELSE r
    IN  IF HasPrefix(icapReqStr, MethodOPTIONS)
        THEN IF httpReqStr = <<>> /\ httpRespStr = <<>> THEN <<<<"n", "u", "l", "l", "-", "b", "o", "d", "y">>>> ELSE <<<<"o", "p", "t", "-", "b", "o", "d", "y">>>>
        ELSE (IF r >= 1 THEN <<<<"r", "e", "q", "-", "h", "d", "r">>>> ELSE <<>>)
             \o (IF r > 1 THEN <<<<"r", "e", "q", "-", "b", "o", "d", "y">>>> ELSE <<>>)
             \o (IF p >= 1 THEN <<<<"r", "e", "s", "-", "h", "d", "r">>>> ELSE <<>>)
             \o (IF p > 1 THEN <<<<"r", "e", "s", "-", "b", "o", "d", "y">>>> ELSE <<>>)
             \o (IF last = 1 THEN <<<<"n", "u", "l", "l", "-", "b", "o", "d", "y">>>> ELSE <<>>)

\* C13: the Encapsulated value that setEncapsulatedHeaderValue computes is one
\* space followed by the sections "name=offset" separated by ", ", and the names
\* are exactly those prescribed for the method and the two blocks, in the fixed
\* order.
C13_EncapsulatedSections ==
    Called("setEncapsulatedHeaderValue") =>
        LET sections == SectionsOf(fnRet.val.encpVal)
        IN  /\ HasPrefix(fnRet.val.encpVal, <<" ">>)
            /\ [i \in 1..Len(sections) |-> sections[i].name]
                   = ExpectedSections(fnArgs.icapReqStr, fnArgs.httpReqStr, fnArgs.httpRespStr)

\* C14: every offset in the computed Encapsulated value is 0 or the index of the
\* byte that follows a double CRLF in the concatenation of the request block and
\* the response block, and the offsets do not decrease along the value.
C14_EncapsulatedOffsets ==
    Called("setEncapsulatedHeaderValue") =>
        LET sections == SectionsOf(fnRet.val.encpVal)
            payload == fnArgs.httpReqStr \o fnArgs.httpRespStr
        IN  /\ \A i \in 1..Len(sections) :
                   \/ sections[i].off = 0
                   \/ /\ sections[i].off >= 4
                      /\ sections[i].off <= Len(payload)
                      /\ SubSeq(payload, sections[i].off - 3, sections[i].off) = doubleCRLF
            /\ \A i, j \in 1..Len(sections) : i < j => sections[i].off <= sections[j].off

\* C15: the message of a request with preview set and the body fitted in the
\* preview ends with "0; ieof" and a double CRLF, and the request has no
\* remaining preview bytes.
C15_FittedEndsWithIeof ==
    Called("toICAPMessage") /\ fnArgs.req.previewSet /\ fnArgs.req.bodyFittedInPreview =>
        /\ ~fnRet.val.panic
        /\ HasSuffix(fnRet.val.data, <<"0">> \o fullBodyEndIndicatorPreviewMode)
        /\ fnArgs.req.remainingPreviewBytes = <<>>

\* C16: the message of a request with preview set and the body not fitted in the
\* preview ends with the chunk terminator, "0" and a double CRLF, and the
\* request has remaining preview bytes.
C16_NotFittedEndsWithTerminator ==
    Called("toICAPMessage") /\ fnArgs.req.previewSet /\ ~fnArgs.req.bodyFittedInPreview =>
        /\ ~fnRet.val.panic
        /\ HasSuffix(fnRet.val.data, chunkEnd)
        /\ fnArgs.req.remainingPreviewBytes # <<>>

\* the lines of the ICAP header block of a message
ICAPHeaderLines(msg) ==
    LET i == IndexSubFrom(msg, doubleCRLF, 1)
    IN  SplitSub(IF i = 0 THEN msg ELSE SubSeq(msg, 1, i - 1), crlf)

\* C17: when the caller has set an Encapsulated header, the message has an
\* Encapsulated header and every Encapsulated header of the message holds the
\* value of the caller, byte for byte.
C17_EncapsulatedVerbatim ==
    Called("toICAPMessage") /\ HeaderGet(fnArgs.req.Header, encapsulatedHeader) # <<>> =>
        LET lines == ICAPHeaderLines(fnRet.val.data)
            own == {i \in 1..Len(lines) : HasPrefix(lines[i], encapsulatedHeader \o <<":">>)}
        IN  /\ ~fnRet.val.panic
            /\ own # {}
            /\ \A i \in own :
                   lines[i] = encapsulatedHeader \o <<":", " ">>
                              \o HeaderGet(fnArgs.req.Header, encapsulatedHeader)

\* the number that the lowercase hexadecimal digits h write, -1 when h is empty,
\* has another character or is padded with a zero
HexValue(h) ==
    IF h = <<>> \/ (Len(h) > 1 /\ h[1] = "0")
       \/ \E i \in 1..Len(h) : \A d \in 1..16 : HexDigits[d] # h[i]
    THEN 0 - 1
    ELSE LET digit(c) == (CHOOSE d \in 1..16 : HexDigits[d] = c) - 1
             value[i \in 0..Len(h)] == IF i = 0 THEN 0 ELSE value[i - 1] * 16 + digit(h[i])
         IN  value[Len(h)]

\* v is s in chunked form: the length of s in hexadecimal, a CRLF, s, a CRLF,
\* "0" and a CRLF
IsChunkOf(v, s) ==
    LET i == IndexSubFrom(v, crlf, 1)
    IN  /\ i > 1
        /\ HexValue(SubSeq(v, 1, i - 1)) = Len(s)
        /\ Drop(v, i - 1) = crlf \o s \o crlf \o <<"0">> \o crlf

\* C18: the bytes of the second flight end with a double CRLF; remaining bytes
\* that do not end as a chunked body does are sent in chunked form followed by
\* one CRLF, and bytes taken as chunked already are sent as they are, followed by
\* one CRLF when they do not end with a double CRLF.
C18_SecondFlightEnds ==
    Called("secondFlightData") =>
        /\ HasSuffix(fnRet.val, doubleCRLF)
        /\ ~MatchChunkedEnd(fnArgs.remaining) =>
               /\ HasSuffix(fnRet.val, crlf)
               /\ IsChunkOf(SubSeq(fnRet.val, 1, Len(fnRet.val) - 2), fnArgs.remaining)
        /\ bodyAlreadyChunked(fnArgs.remaining) =>
               fnRet.val = IF HasSuffix(fnArgs.remaining, doubleCRLF)
                           THEN fnArgs.remaining ELSE fnArgs.remaining \o crlf

\* remaining bytes that are chunked already and end with one CRLF have been sent
\* with one more CRLF
C18_Witness ==
    /\ Called("secondFlightData")
    /\ bodyAlreadyChunked(fnArgs.remaining)
    /\ ~HasSuffix(fnArgs.remaining, doubleCRLF)
    /\ fnRet.val = fnArgs.remaining \o crlf

\* C19: addHexBodyByteNotations gives the length of the body in lowercase
\* hexadecimal without padding, a CRLF, the body, a CRLF, "0" and a CRLF: "c" for
\* a body of 12 bytes, "25" for one of 37 bytes.
C19_HexNotation ==
    Called("addHexBodyByteNotations") =>
        /\ IsChunkOf(fnRet.val, fnArgs.bodyStr)
        /\ Len(fnArgs.bodyStr) = 12 => HasPrefix(fnRet.val, <<"c">> \o crlf)
        /\ Len(fnArgs.bodyStr) = 37 => HasPrefix(fnRet.val, <<"2", "5">> \o crlf)

\* a body of 37 bytes has got the length 25
C19_Witness ==
    /\ Called("addHexBodyByteNotations")
    /\ Len(fnArgs.bodyStr) = 37
    /\ fnRet.val = <<"2", "5">> \o crlf \o fnArgs.bodyStr \o crlf \o <<"0">> \o crlf

\* C20: for a message with a double CRLF, parsePreviewBodyBytes gives the header,
\* the double CRLF and the first pb bytes of the body, the whole body when pb is
\* at least its length, and does not fail.
C20_PreviewBodyBytes ==
    Called("parsePreviewBodyBytes") /\ IndexSubFrom(fnArgs.str, doubleCRLF, 1) # 0 =>
        LET at == IndexSubFrom(fnArgs.str, doubleCRLF, 1)
            body == Drop(fnArgs.str, at + 3)
        IN  /\ ~fnRet.val.panic
            /\ fnRet.val.str = SubSeq(fnArgs.str, 1, at + 3) \o Take(body, fnArgs.pb)

\* C21: when toICAPMessage fills in the Encapsulated value, the block of the
\* embedded HTTP request and the block of the embedded HTTP response each are
\* empty or end with a double CRLF.
C21_BlocksEndWithDoubleCRLF ==
    Called("toICAPMessage") /\ ~fnRet.val.panic =>
        /\ (fnRet.val.httpReqStr = <<>> \/ HasSuffix(fnRet.val.httpReqStr, doubleCRLF))
        /\ (fnRet.val.httpRespStr = <<>> \/ HasSuffix(fnRet.val.httpRespStr, doubleCRLF))

\* a previewed response whose body the serializer has put in chunked form ends
\* with the closing chunk and a double CRLF
C21_Witness ==
    /\ Called("toICAPMessage")
    /\ fnArgs.req.Method = MethodRESPMOD
    /\ fnArgs.req.previewSet
    /\ ~bodyAlreadyChunked(DumpMessage(fnArgs.req.HTTPResponse))
    /\ HasSuffix(fnRet.val.httpRespStr, <<"a">> \o crlf \o chunkEnd)
    /\ HasSuffix(fnRet.val.httpReqStr, doubleCRLF)

\* C22: the message that toICAPMessage returns is the request line "METHOD URL
\* ICAP/1.0", one line "Name: value" for every header value of the request, the
\* line "Encapsulated: value", an empty line, the block of the HTTP request and
\* the block of the HTTP response (each with or without the ieof indicator) and
\* nothing else; for OPTIONS without headers and embedded messages it is the
\* request line and "Encapsulated:  null-body=0" with a double CRLF.
C22_MessageLayout ==
    Called("toICAPMessage") /\ ~fnRet.val.panic =>
        LET r == fnArgs.req
            msg == fnRet.val.data
            reqLine == r.Method \o <<" ">> \o r.URL \o <<" ">> \o icapVersion \o crlf
            blocks(q, p) == {a \o b : a \in {q, addFullBodyInPreviewIndicator(q)},
                                      b \in {p, addFullBodyInPreviewIndicator(p)}}
        IN  /\ \E hs \in Orderings(r.Header) :
                   LET head == reqLine \o HeaderLines(hs) \o encapsulatedHeader \o <<":", " ">>
                       end == IndexSubFrom(msg, crlf, Len(head) + 1)
                   IN  /\ HasPrefix(msg, head)
                       /\ end > 0
                       /\ SubSeq(msg, end, end + 3) = doubleCRLF
                       /\ Drop(msg, end + 3) \in blocks(fnRet.val.httpReqStr, fnRet.val.httpRespStr)
            /\ (r.Method = MethodOPTIONS /\ r.Header = {}) =>
                   msg = reqLine \o encapsulatedHeader
                         \o <<":", " ", " ", "n", "u", "l", "l", "-", "b", "o", "d", "y", "=", "0">>
                         \o doubleCRLF

\* the start lines of the reply of the call: its status line and the start line
\* of its embedded message, each as its tokens
StartLines(reply) ==
    {<<icapVersion>> \o reply.status}
    \cup (IF reply.embedded = NoEmbedded THEN {} ELSE {reply.embedded.start})

\* C23: readResponse fails with ErrInvalidTCPMsg only when a start line of the
\* reply (the ICAP status line, the start line of the embedded message) has
\* fewer than three tokens, and it does fail so when the status line has.
C23_InvalidOnlyForStartLines ==
    Called("readResponse") =>
        /\ fnRet.val.err = "ErrInvalidTCPMsg" =>
               \E l \in StartLines(fnArgs.reply) : Len(l) < 3
        /\ Len(fnArgs.reply.status) < 2 => fnRet.val.err = "ErrInvalidTCPMsg"

\* C24: for a reply whose status line is "ICAP/1.0 code text", a response that
\* readResponse returns has the number code as StatusCode and the whole text as
\* Status; when code is no number, readResponse returns an error and no response.
C24_StatusOfFirstLine ==
    Called("readResponse") /\ Len(fnArgs.reply.status) >= 2 =>
        LET code == Atoi(fnArgs.reply.status[1])
            text == JoinSp(Tail(fnArgs.reply.status))
        IN  IF code.ok
            THEN fnRet.val.err = "nil" =>
                     fnRet.val.StatusCode = code.val /\ fnRet.val.Status = text
            ELSE fnRet.val.err # "nil"

\* the values that the header h of a parsed response holds under the name k
RECURSIVE HeaderValues(_, _)
HeaderValues(h, k) ==
    IF h = <<>> THEN <<>>
    ELSE (IF Head(h)[1] = k THEN <<Head(h)[2]>> ELSE <<>>) \o HeaderValues(Tail(h), k)

\* C25: when the Header of the parsed response holds one Preview entry, whose
\* value is a number, PreviewBytes is that number; when it holds none,
\* PreviewBytes is 0.
C25_PreviewBytesOfHeader ==
    Called("readResponse") /\ fnRet.val.err = "nil" =>
        LET preview == HeaderValues(fnRet.val.Header, previewHeader)
        IN  /\ (Len(preview) = 1 /\ Atoi(preview[1]).ok) =>
                   fnRet.val.PreviewBytes = Atoi(preview[1]).val
            /\ preview = <<>> => fnRet.val.PreviewBytes = 0

\* the embedded message of the reply is an HTTP response: its start line begins
\* with a version token "HTTP/" and has three tokens
EmbeddedResponse(reply) ==
    /\ Len(reply.embedded.start) >= 3
    /\ HasPrefix(reply.embedded.start[1], <<"H", "T", "T", "P", "/">>)

\* C26: the response that readResponse returns for a reply with an embedded HTTP
\* response, HTTP/1.0 or HTTP/1.1, has a ContentResponse.
C26_ContentResponseSet ==
    Called("readResponse") /\ fnRet.val.err = "nil" /\ EmbeddedResponse(fnArgs.reply) =>
        fnRet.val.ContentResponse # <<>>

\* the header of a parsed response as the map of http.Header: the names, and
\* the values of each name in their order
HeaderMap(h) ==
    [k \in {h[i][1] : i \in 1..Len(h)} |-> HeaderValues(h, k)]

\* the header that the ICAP header block hs of a reply makes: every line under
\* its canonical name
RECURSIVE BlockHeader(_)
BlockHeader(hs) ==
    IF hs = <<>> THEN <<>>
    ELSE <<<<CanonicalMIMEHeaderKey(Head(hs)[1]), Head(hs)[2]>>>> \o BlockHeader(Tail(hs))

\* C27: the Header of the response that readResponse returns holds the header
\* lines of the ICAP header block of the reply, the values of a repeated name
\* in their order, and nothing else.
C27_HeaderIsICAPBlock ==
    Called("readResponse") /\ fnRet.val.err = "nil" =>
        HeaderMap(fnRet.val.Header) = HeaderMap(BlockHeader(fnArgs.reply.header))

C29_DoHasDeadline ==
    (doPc \notin {"none", "connect"} /\ tcp = "open") =>
        /\ deadlines.rd = connectCall.at + opts.Timeout
        /\ deadlines.wr = connectCall.at + opts.Timeout

\* C30: once a Send call has returned, none of its two tasks is blocked sending
\* on the error channel or on the result channel, which nobody receives from
\* any more.
C30_NoTaskLeftBlocked ==
    \A s \in Sends :
        mainPc[s] = "returned" =>
            /\ wrPc[s] # "errsend"
            /\ rdPc[s] \notin {"errsend", "errsend2", "ressend"}

\* the arguments of a NewRequest call are a well-formed combination
WellFormedRequest(a) ==
    /\ a.ctx
    /\ a.scheme = schemeICAP
    /\ a.host # ""
    /\ \/ a.method = MethodOPTIONS
       \/ a.method = MethodREQMOD /\ a.httpReq /\ ~a.httpResp
       \/ a.method = MethodRESPMOD /\ a.httpResp

\* C31: NewRequest succeeds exactly for the well-formed combinations, and when
\* it fails, it does so before any I/O and with an error that matches: no
\* context, a scheme other than icap, an empty host, a method other than
\* OPTIONS, REQMOD and RESPMOD, REQMOD without request, REQMOD with response,
\* RESPMOD without response.
C31_NewRequestValidation ==
    Called("NewRequest") =>
        LET a == fnArgs.args
            e == fnRet.val.err
        IN  /\ (e = "nil") <=> WellFormedRequest(a)
            /\ tcp = "nil" /\ wire = <<>>
            /\ e = "ErrNoContext" => ~a.ctx
            /\ e = "ErrInvalidScheme" => a.scheme = "http"
            /\ e = "ErrInvalidHost" => a.host = ""
            /\ e = "ErrMethodNotAllowed" => a.method = <<"i", "n", "v", "a", "l", "i", "d">>
            /\ e = "ErrREQMODWithoutReq" => (a.method = MethodREQMOD /\ ~a.httpReq)
            /\ e = "ErrREQMODWithResp" => (a.method = MethodREQMOD /\ a.httpResp)
            /\ e = "ErrRESPMODWithoutResp" => (a.method = MethodRESPMOD /\ ~a.httpResp)
            /\ e \in {"nil", "ErrNoContext", "ErrInvalidScheme", "ErrInvalidHost",
                      "ErrMethodNotAllowed", "ErrREQMODWithoutReq", "ErrREQMODWithResp",
                      "ErrRESPMODWithoutResp"}

C31_Witness ==
    /\ Called("NewRequest")
    /\ fnArgs.args = [ctx |-> TRUE, method |-> MethodREQMOD, scheme |-> schemeICAP,
                      host |-> "localhost:1344", httpReq |-> TRUE, httpResp |-> TRUE]
    /\ fnRet.val.err = "ErrREQMODWithResp"

\* the body of the message that a request embeds for its method
EmbeddedBody(r) ==
    IF r.Method = MethodREQMOD THEN r.HTTPRequest.body ELSE r.HTTPResponse.body

\* C32: SetPreview(n) on a request whose embedded body has L bytes sets
\* PreviewBytes and the Preview header to min(n, L), keeps body[n:] as the
\* remaining bytes (none when L <= n), sets bodyFittedInPreview exactly when
\* L <= n, and leaves all L bytes of the embedded body to read.
C32_SetPreview ==
    Called("SetPreview") =>
        LET body == EmbeddedBody(fnArgs.req)
            L == Len(body)
            n == fnArgs.n
            r == fnRet.val
            preview == {h \in r.Header : h[1] = previewHeader}
        IN  /\ r.PreviewBytes = (IF n < L THEN n ELSE L)
            /\ Cardinality(preview) = 1
            /\ \A h \in preview : Atoi(h[2]) = [ok |-> TRUE, val |-> r.PreviewBytes]
            /\ r.remainingPreviewBytes =
                   (IF L <= n THEN <<>> ELSE SubSeq(body, n + 1, L))
            /\ r.bodyFittedInPreview = (L <= n)
            /\ EmbeddedBody(r) = body
            /\ r.previewSet

C32_Witness ==
    /\ Called("SetPreview")
    /\ fnArgs.n = 2
    /\ Len(EmbeddedBody(fnArgs.req)) = 3
    /\ Len(fnRet.val.remainingPreviewBytes) = 1
    /\ ~fnRet.val.bodyFittedInPreview

\* C33: in Client.Do the operations on the connection occur in the order
\* Connect, first Send, optional second Send, Close: a Send starts only after
\* Connect has succeeded, the second Send only after the first has returned a
\* reply with status 100, and no Send starts or runs after Close.
C33_OperationOrder ==
    /\ \A s \in Sends : mainPc[s] # "idle" => hist.connects = 1
    /\ \A s \in Sends : mainPc[s] \notin {"idle", "returned"} =>
           /\ tcp = "open"
           /\ hist.closes = 0
           /\ doPc = (IF s = 1 THEN "wait1" ELSE "wait2")
    /\ mainPc[2] # "idle" =>
           /\ mainPc[1] = "returned"
           /\ sendRes[1].kind = "resp"
           /\ sendRes[1].resp.StatusCode = StatusContinue
    /\ hist.closes = 1 => hist.sends \in 0..2 /\ doPc = "done"

\* Do has connected, sent both flights and closed
C33_Witness ==
    /\ doPc = "done"
    /\ hist = [connects |-> 1, sends |-> 2, closes |-> 1, path |-> "two_flight"]
    /\ mainPc = <<"returned", "returned">>
    /\ tcp = "closed"

\* C34: when the request block and the response block are both present, the
\* offset of res-hdr is the length of the request block, also when the body of
\* the request holds a double CRLF, and the offset of the section after it,
\* res-body or null-body, is that length plus the length of the header section
\* of the response.
C34_ResponseOffsets ==
    LET q == fnArgs.httpReqStr
        p == fnArgs.httpRespStr
    IN  ( /\ Called("setEncapsulatedHeaderValue")
          /\ ~HasPrefix(fnArgs.icapReqStr, MethodOPTIONS)
          /\ HasSuffix(q, doubleCRLF)
          /\ FindAllStringIndex(p) # <<>> ) =>
            LET sections == SectionsOf(fnRet.val.encpVal)
            IN  \E i \in 1..(Len(sections) - 1) :
                    /\ sections[i] = [name |-> <<"r", "e", "s", "-", "h", "d", "r">>,
                                      off |-> Len(q)]
                    /\ sections[i + 1].name \in {<<"r", "e", "s", "-", "b", "o", "d", "y">>,
                                                 <<"n", "u", "l", "l", "-", "b", "o", "d", "y">>}
                    /\ sections[i + 1].off = Len(q) + FindAllStringIndex(p)[1]

\* C35: for the bytes of one reply followed by the end of the stream, the result
\* of Send does not depend on the segments in which the bytes arrive: it is the
\* result for the whole reply, and no byte of the reply is left unread because
\* the bytes read so far end with "0" and a double CRLF or hold the 204 marker.
C35_SplitIndependent ==
    ( /\ mainPc[1] = "returned"
      /\ sendRes[1].kind = "resp"
      /\ srvCount = 1
      /\ srvEOF
      /\ data[2] = <<>> ) =>
        /\ Unread = <<>>
        /\ sendRes[1].resp = readResponse(sendRes[1].from \o Unread)

\* C36: Send returns a response only if an ICAP status line was received and
\* parsed; when the server closes the connection without sending a byte, Send
\* returns an error, not a response with the status code 0.
C36_ResponseHasStatus ==
    \A s \in Sends :
        mainPc[s] = "returned" /\ sendRes[s].kind = "resp" =>
            /\ sendRes[s].from # <<>>
            /\ HasPrefix(sendRes[s].from, icapVersion \o <<" ">>)
            /\ sendRes[s].resp.StatusCode # 0

\* C37: when two calls of Client.Do run on one Client, each call writes to,
\* reads from and closes only the socket that its own Connect opened, and when
\* both calls have returned no socket that either opened is still open.
C37_OwnSocketOnly ==
    /\ \A i \in Callers :
           /\ sockUse[i].write \in {0, i}
           /\ sockUse[i].read \in {0, i}
           /\ sockUse[i].close \in {0, i}
    /\ (\A i \in Callers : callPc[i] = "done") =>
           \A k \in Callers : sockets[k] # "open"

\* C38: the message that toICAPMessage returns has exactly one Encapsulated
\* header line, whether the value was computed from the embedded messages or
\* set by the caller in the headers of the request.
C38_OneEncapsulatedLine ==
    Called("toICAPMessage") /\ ~fnRet.val.panic =>
        LET lines == ICAPHeaderLines(fnRet.val.data)
        IN  Cardinality({i \in 1..Len(lines) :
                            HasPrefix(lines[i], encapsulatedHeader \o <<":">>)}) = 1

\* what a Send or a Close without socket must leave alone: the socket, the
\* mutex, the tasks and what was written and read
SocketState == <<tcp, mu, fdw, wire, inbox, wrPc, rdPc, wrote, data, deadlines>>

\* C39: Send and Close on a connection without socket return EINVAL without
\* any operation on a socket: the step in which Send goes on from its call
\* returns EINVAL, takes no mutex and starts no task, the step of Close returns
\* EINVAL, and both leave the state of the connection as it was.
C39_UnconnectedEINVAL ==
    [][ /\ \A s \in Sends :
              (~ok /\ mainPc[s] = "call" /\ mainPc'[s] # "call") =>
                  /\ mainPc'[s] = "returned"
                  /\ sendRes'[s].kind = "err"
                  /\ sendRes'[s].err = {"EINVAL"}
                  /\ SocketState' = SocketState
        /\ (~ok /\ hist'.closes = hist.closes + 1) =>
              /\ closeErr' = {"EINVAL"}
              /\ SocketState' = SocketState ]_vars

\* Send and Close have returned EINVAL on a connection never connected
C39_Witness ==
    /\ ~connectCall.called
    /\ tcp = "nil"
    /\ mainPc[1] = "returned"
    /\ sendRes[1].err = {"EINVAL"}
    /\ closeErr = {"EINVAL"}
    /\ mu = 0
    /\ wrPc[1] = "idle" /\ rdPc[1] = "idle"

====
